---- MODULE Spec2Model ----
(***************************************************************************)
(* lean_bench: the compilation cache (cache.py), the attempt ledger        *)
(* (storage.py) and the compile pipeline, single request and batch         *)
(* (api.py), modelled as state machines over an abstract file system.      *)
(*                                                                         *)
(* Specifications:                                                         *)
(*   Spec        the cache API called sequentially (store, lookup, clear,  *)
(*               cleanup) on a medium that may be unwritable or hold       *)
(*               corrupt records, with a clock                             *)
(*   SpecLedger  K workers appending to the ledger concurrently            *)
(*   SpecSingle  the /compile/content handler, one request after another   *)
(*   SpecBatch   _run_batch_compilation: tasks under the semaphore         *)
(*   SpecStore   the ledger API called sequentially: append, get, query,   *)
(*               statistics and purge, with a clock                        *)
(*   SpecQuery   the ledger API's reads under every filter and limit       *)
(*   SpecCompile compile_lean_file and compile_lean_content (compiler.py)  *)
(*               with the child process, its timeout and the temporary     *)
(*               files                                                     *)
(*   SpecInvokers compile_lean_content called concurrently in one working  *)
(*               directory                                                 *)
(*   SpecEvict   cleanup_expired_cache on a cache directory of any content *)
(*   SpecScans   the cache scans (cleanup, clear, statistics) and lookups  *)
(*               running concurrently, interleaved entry by entry          *)
(*   SpecOutcome CompilerOutput objects and their success property         *)
(*   SpecHash    compute_content_hash on pairs of argument sequences       *)
(*   SpecDiag    parse_lean_diagnostics on stderr texts                    *)
(*   SpecProject setup_lean_project and validate_lean_project (project.py) *)
(*   SpecRace    cache stores, lookups and cleanups running concurrently,  *)
(*               interleaved system call by system call                    *)
(*   SpecSource  the source unit compile_lean_content writes               *)
(*   SpecMidnight the appends of SpecLedger across the end of a day        *)
(***************************************************************************)
EXTENDS Integers, Sequences, FiniteSets, TLC

VARIABLES
    now,          \* the wall clock (time.time(), datetime.now())
    cacheDir,     \* state of the cache directory
    cache,        \* cache key -> state of the backing file <key>.json
    ret,          \* what the last cache call returned (or that it raised)
    stored,       \* cache key -> the last store call on it, until cleared or evicted
    ledgerDir,    \* state of the ledger's storage directory
    ledger,       \* the attempt files, each in its date partition
    nextId,       \* caller -> how many uuid4 values it drew so far
    wpc, wcur, wdone, \* the ledger workers: position, attempt in progress, appends returned
    log,          \* SpecSingle: the requests handled so far, in order
    reqs, maxConc, batch, sem, tpc, tres, compiles, tloc, tfail, \* SpecBatch
    cpc,          \* SpecCompile: whether a compiler call is blocked in subprocess.run
    ccall,        \* the compiler call in progress: its kind, timeout, start_time, file
    proc,         \* the child process of the last subprocess.run
    workdir,      \* the working directory: its state, the lean binary, the files in it
    inv,          \* SpecInvokers: the concurrent compile_lean_content calls
    scan,         \* SpecScans: thread -> its cache operation and where it is
    arg, val      \* the argument drawn for a pure function and the value computed

cacheVars == <<cacheDir, cache, ret, stored>>
ledgerVars == <<ledgerDir, ledger, nextId>>
workerVars == <<wpc, wcur, wdone>>
batchVars == <<reqs, maxConc, batch, sem, tpc, tres, compiles, tloc, tfail>>
compVars == <<cpc, ccall, proc, workdir>>
concVars == <<inv, scan>>
pureVars == <<arg, val>>
vars == <<now, cacheVars, ledgerVars, workerVars, log, batchVars, compVars, concVars, pureVars>>

\* no compiler call, concurrent operation or pure function is modelled step
\* by step: the specifications other than SpecCompile take the compiler's
\* outcome as one of CompilerOutcomes
NoCall == [kind |-> "none"]
NoCompilerCall ==
    /\ cpc = "idle" /\ ccall = NoCall /\ proc = "none"
    /\ workdir = [state |-> "ok", lean |-> "ok", files |-> {}]
    /\ inv = <<>> /\ scan = <<>>
    /\ arg = <<>> /\ val = <<>>

---------------------------------------------------------------------------
(* Bounds of the model *)

\* the clock runs from 0 to MaxTime
MaxTime == 2
\* a ttl is absent or one of -1 .. MaxTtl seconds
MaxTtl == 2

TtlValues == (-1) .. MaxTtl

---------------------------------------------------------------------------
(* Compiler outcomes and result payloads *)

NoError == "None"

\* compiler.py: what compile_lean_file / compile_lean_content can return
OutSuccess == [returncode |-> 0, timeout |-> FALSE, error |-> NoError]
OutNonZero == [returncode |-> 1, timeout |-> FALSE, error |-> NoError]
OutTimeout == [returncode |-> -1, timeout |-> TRUE, error |-> "Compilation timeout"]
OutLaunch == [returncode |-> -1, timeout |-> FALSE, error |-> "launch failure"]
CompilerOutcomes == {OutSuccess, OutNonZero, OutTimeout, OutLaunch}

\* bool(self.error): None and the empty text are false
error_set(error) == error # NoError /\ error # ""

successIgnoresTimeout(o) == o.returncode = 0 /\ ~error_set(o.error)

\* CompilerOutput.success:
\* self.returncode == 0 and not self.timeout and not self.error
success(o) == o.returncode = 0 /\ ~o.timeout /\ ~error_set(o.error)

\* api.py: the dict built from a CompilerOutput for caching and storage
\* (stdout, stderr and duration_ms are opaque text and left out)
result_dict(o) ==
    [returncode |-> o.returncode, timeout |-> o.timeout, error |-> o.error,
     success |-> success(o)]

Results == {result_dict(o) : o \in CompilerOutcomes}

\* result["cached"] = True
MarkCached(r) ==
    [x \in DOMAIN r \cup {"cached"} |-> IF x = "cached" THEN TRUE ELSE r[x]]

NoResult == [returncode |-> 0, timeout |-> FALSE, error |-> NoError, success |-> FALSE]

---------------------------------------------------------------------------
(* Cache keys: compute_content_hash over the request's parameters *)

RECURSIVE Concat(_)
Concat(ss) == IF ss = <<>> THEN <<>> ELSE Head(ss) \o Concat(Tail(ss))

\* the values compute_content_hash is given: texts (sequences of characters),
\* integers, booleans, None, lists, and dicts with their items in insertion
\* order (a dict's keys are distinct one-letter texts)
VStr(s) == [t |-> "str", v |-> s]
VInt(n) == [t |-> "int", v |-> n]
VBool(b) == [t |-> "bool", v |-> b]
VNone == [t |-> "none"]
VList(items) == [t |-> "list", v |-> items]
VDict(items) == [t |-> "dict", v |-> items]

\* the decimal digits of an integer
DecimalDigits == <<"0", "1", "2", "3", "4", "5", "6", "7", "8", "9">>
RECURSIVE str_int(_)
str_int(n) ==
    IF n < 0 THEN <<"-">> \o str_int(-n)
    ELSE IF n < 10 THEN <<DecimalDigits[n + 1]>>
    ELSE str_int(n \div 10) \o <<DecimalDigits[(n % 10) + 1]>>

\* str(x) of an argument that is neither a dict nor a list
str(x) ==
    CASE x.t = "str" -> x.v
      [] x.t = "int" -> str_int(x.v)
      [] x.t = "bool" -> IF x.v THEN <<"T", "r", "u", "e">> ELSE <<"F", "a", "l", "s", "e">>
      [] x.t = "none" -> <<"N", "o", "n", "e">>

\* the order of the one-letter keys (sorted() compares code points)
Letters == <<"p", "q", "x", "y">>
rank(k) == CHOOSE i \in DOMAIN Letters : Letters[i] = k

sort_keysOff(items) == items

\* sort_keys=True: the items of a dict in the order of their keys
RECURSIVE sort_keys(_)
sort_keys(items) ==
    IF items = <<>> THEN <<>>
    ELSE LET i == CHOOSE i \in DOMAIN items :
                     \A j \in DOMAIN items : rank(items[i][1]) <= rank(items[j][1])
         IN  <<items[i]>> \o sort_keys(SubSeq(items, 1, i - 1) \o SubSeq(items, i + 1, Len(items)))

\* a text as a JSON string: quoted, with quotes and backslashes escaped
RECURSIVE escape(_)
escape(s) ==
    IF s = <<>> THEN <<>>
    ELSE (IF Head(s) \in {"\"", "\\"} THEN <<"\\", Head(s)>> ELSE <<Head(s)>>) \o escape(Tail(s))
json_string(s) == <<"\"">> \o escape(s) \o <<"\"">>

\* the texts of ts joined with ", "
RECURSIVE join(_)
join(ts) ==
    IF ts = <<>> THEN <<>>
    ELSE IF Len(ts) = 1 THEN ts[1]
    ELSE ts[1] \o <<",", " ">> \o join(Tail(ts))

\* json.dumps(x, sort_keys=True, ensure_ascii=False)
RECURSIVE dumps(_)
dumps(x) ==
    CASE x.t = "str" -> json_string(x.v)
      [] x.t = "int" -> str_int(x.v)
      [] x.t = "bool" -> IF x.v THEN <<"t", "r", "u", "e">> ELSE <<"f", "a", "l", "s", "e">>
      [] x.t = "none" -> <<"n", "u", "l", "l">>
      [] x.t = "list" -> <<"[">> \o join([i \in DOMAIN x.v |-> dumps(x.v[i])]) \o <<"]">>
      [] x.t = "dict" ->
            LET items == sort_keys(x.v)
            IN  <<"{">>
                \o join([i \in DOMAIN items |->
                            json_string(<<items[i][1]>>) \o <<":", " ">> \o dumps(items[i][2])])
                \o <<"}">>

\* cache.py compute_content_hash: json.dumps of every dict and list argument,
\* str() of every other one, concatenated in order with no separator; sha256
\* of the text is taken as injective, so the key is the text itself
compute_content_hash(args) ==
    Concat([i \in DOMAIN args |->
                IF args[i].t \in {"dict", "list"} THEN dumps(args[i]) ELSE str(args[i])])

\* request parameters: content and file name vary, project root, dependencies
\* and timeout are fixed ("L" stands for the text ".lean")
Contents == {<<"a">>, <<"a", "b">>}
FileNames == {<<"b", "L">>, <<"L">>}
ProjectRoot == <<"/p">>
Params == [content : Contents, file_name : FileNames]
DefaultTimeout == 60

\* cache.py cache_compilation_result, the arguments of the key:
\* content, file_name, str(project_root), dependencies or [], timeout
request_args(r) ==
    <<VStr(r.content), VStr(r.file_name), VStr(r.project_root),
      IF r.dependencies = VNone \/ r.dependencies = VList(<<>>) THEN VList(<<>>)
      ELSE r.dependencies,
      VInt(r.timeout)>>

\* the key of a request with no dependencies and the default timeout
request_key(p) ==
    compute_content_hash(request_args(
        [content |-> p.content, file_name |-> p.file_name, project_root |-> ProjectRoot,
         dependencies |-> VNone, timeout |-> DefaultTimeout]))

\* the requests with their keys, computed once
KeyTable == {<<p, request_key(p)>> : p \in Params}
cache_key(p) == (CHOOSE q \in KeyTable : q[1] = p)[2]

CacheKeys == {cache_key(p) : p \in Params}
\* the keys the cache API is called with directly in Spec: every kind of call
\* and fault on Key1, plain stores and lookups on Key2
Key1 == cache_key([content |-> <<"a">>, file_name |-> <<"L">>])
Key2 == cache_key([content |-> <<"a", "b">>, file_name |-> <<"b", "L">>])

---------------------------------------------------------------------------
(* The cache: cache.py *)

\* The backing file of a key is missing, a readable entry, a file that is not a
\* JSON object ("corrupt"), or a directory of that name ("dir").
\* (an entry's cached_at is written and never read: it is left out)
File(kind, r, has, exp) ==
    [kind |-> kind, result |-> r, has_expiry |-> has, expires_at |-> exp]
Missing == File("missing", NoResult, FALSE, 0)
Corrupt == File("corrupt", NoResult, FALSE, 0)
DirRecord == File("dir", NoResult, FALSE, 0)

\* The cache directory: "absent" (can be created), "ok", "readonly" (exists and
\* is readable, nothing in it can be created, written or unlinked) or "blocked"
\* (does not exist and cannot be created).
DirStates == {"absent", "ok", "readonly", "blocked"}

Ret(op, k, raised, hit, value) ==
    [op |-> op, key |-> k, raised |-> raised, hit |-> hit, value |-> value, count |-> 0]
RetCount(op, raised, n) ==
    [op |-> op, key |-> <<>>, raised |-> raised, hit |-> FALSE, value |-> NoResult, count |-> n]

NoStore == [valid |-> FALSE, result |-> NoResult, has_ttl |-> FALSE, ttl |-> 0, at |-> 0]

\* get_cached_result(cache_key) on backing file f in directory state d at time t:
\* what is returned (or that it raised) and the file afterwards
get_cached_result(f, d, t) ==
    \* line 53: not cache_file.exists()
    IF f.kind = "missing" THEN [raised |-> FALSE, hit |-> FALSE, value |-> NoResult, file |-> f]
    \* lines 57-74: readable, and not (time.time() > expires_at)
    ELSE IF f.kind = "entry" /\ ~(f.has_expiry /\ t > f.expires_at)
    THEN [raised |-> FALSE, hit |-> TRUE, value |-> MarkCached(f.result), file |-> f]
    \* line 64 (expired) or line 78 (open / json.load raised): unlink, return None
    ELSE IF f.kind # "dir" /\ d = "ok"
    THEN [raised |-> FALSE, hit |-> FALSE, value |-> NoResult, file |-> Missing]
    \* the unlink itself raises (a directory, a read-only directory): an
    \* exception raised at line 64 is caught at line 76 and line 78 raises again
    ELSE [raised |-> TRUE, hit |-> FALSE, value |-> NoResult, file |-> f]

\* store_cached_result(cache_key, result, ttl_seconds) on backing file f in
\* directory state d at time t; fault "dump" is a write that fails after the
\* file was opened (and truncated), e.g. a full disk
store_cached_resultNoClock(f, d, r, has_ttl, ttl, t, fault) ==
    IF d = "blocked" THEN [raised |-> TRUE, wrote |-> FALSE, dir |-> d, file |-> f]
    ELSE IF d = "readonly" \/ f.kind = "dir"
    THEN [raised |-> FALSE, wrote |-> FALSE, dir |-> d, file |-> f]
    ELSE IF fault = "dump"
    THEN [raised |-> FALSE, wrote |-> FALSE, dir |-> "ok", file |-> Corrupt]
    ELSE [raised |-> FALSE, wrote |-> TRUE, dir |-> "ok",
          file |-> File("entry", r, has_ttl, IF has_ttl THEN ttl ELSE 0)]

store_cached_result(f, d, r, has_ttl, ttl, t, fault) ==
    \* line 98: cache_path.mkdir(parents=True, exist_ok=True), outside the try
    IF d = "blocked" THEN [raised |-> TRUE, wrote |-> FALSE, dir |-> d, file |-> f]
    \* line 112: open(cache_file, "w") fails, swallowed at line 114
    ELSE IF d = "readonly" \/ f.kind = "dir"
    THEN [raised |-> FALSE, wrote |-> FALSE, dir |-> d, file |-> f]
    \* line 113: json.dump fails part-way, swallowed at line 114
    ELSE IF fault = "dump"
    THEN [raised |-> FALSE, wrote |-> FALSE, dir |-> "ok", file |-> Corrupt]
    \* lines 103-113: {result, cached_at, expires_at = time.time() + ttl_seconds}
    ELSE [raised |-> FALSE, wrote |-> TRUE, dir |-> "ok",
          file |-> File("entry", r, has_ttl, IF has_ttl THEN t + ttl ELSE 0)]

\* every order in which a directory scan (glob) may list the files of S
RECURSIVE Orders(_)
Orders(S) ==
    IF S = {} THEN {<<>>}
    ELSE UNION {{<<k>> \o o : o \in Orders(S \ {k})} : k \in S}

Listed(c) == {k \in DOMAIN c : c[k].kind # "missing"}

\* clear_cache(): the loop of lines 135-140 over the listed files, in any order
\* (each unlink that fails is skipped)
clear_cache(c, d) ==
    LET gone == IF d = "ok" THEN {k \in Listed(c) : c[k].kind # "dir"} ELSE {}
    IN [raised |-> FALSE, count |-> Cardinality(gone),
        cache |-> [k \in DOMAIN c |-> IF k \in gone THEN Missing ELSE c[k]]]

\* cleanup_expired_cache(): the loop of lines 163-175 over the files in the
\* listed order, at scan time t; an unlink that fails raises out of the call
RECURSIVE cleanup_expired_cache(_, _, _, _, _)
cleanup_expired_cache(order, c, d, t, n) ==
    IF order = <<>> THEN [raised |-> FALSE, count |-> n, cache |-> c]
    ELSE LET k == Head(order)
             f == c[k]
         IN  IF f.kind = "entry" /\ ~(f.has_expiry /\ t > f.expires_at)
             THEN cleanup_expired_cache(Tail(order), c, d, t, n)
             ELSE IF f.kind # "dir" /\ d = "ok"
             THEN cleanup_expired_cache(Tail(order), [c EXCEPT ![k] = Missing], d, t, n + 1)
             ELSE [raised |-> TRUE, count |-> n, cache |-> c]

---------------------------------------------------------------------------
(* Python values and their JSON text: what json.dump writes and json.load reads *)

PyNone == [t |-> "none"]
PyBool(b) == [t |-> "bool", v |-> b]
PyInt(n) == [t |-> "int", v |-> n]
PyStr(s) == [t |-> "str", v |-> s]
PyDict(m) == [t |-> "dict", v |-> m]
EmptyDict == PyDict(<<>>)
\* a dict that contains itself: json.dump raises ValueError on it
PyCircular == [t |-> "circular"]

\* the text of a file that is not JSON
Garbage == [j |-> "garbage"]

\* json.dump raises on x
RECURSIVE json_raises(_)
json_raises(x) ==
    \/ x.t = "circular"
    \/ x.t = "dict" /\ \E k \in DOMAIN x.v : json_raises(x.v[k])

\* json.dump(x): the JSON text of a value
RECURSIVE json_dump(_)
json_dump(x) ==
    CASE x.t = "none" -> [j |-> "null"]
      [] x.t = "bool" -> [j |-> IF x.v THEN "true" ELSE "false"]
      [] x.t = "int" -> [j |-> "number", v |-> x.v]
      [] x.t = "str" -> [j |-> "string", v |-> x.v]
      [] x.t = "dict" -> [j |-> "object", v |-> [k \in DOMAIN x.v |-> json_dump(x.v[k])]]

\* the value of a JSON text
RECURSIVE json_value(_)
json_value(y) ==
    CASE y.j = "null" -> PyNone
      [] y.j \in {"true", "false"} -> PyBool(y.j = "true")
      [] y.j = "number" -> PyInt(y.v)
      [] y.j = "string" -> PyStr(y.v)
      [] y.j = "object" -> PyDict([k \in DOMAIN y.v |-> json_value(y.v[k])])

\* json.load(f): raises on a text that is not JSON
json_loadLenient(text) ==
    IF text.j = "garbage" THEN [raised |-> FALSE, value |-> EmptyDict]
    ELSE [raised |-> FALSE, value |-> json_value(text)]

json_load(text) ==
    IF text.j = "garbage" THEN [raised |-> TRUE, value |-> PyNone]
    ELSE [raised |-> FALSE, value |-> json_value(text)]

\* bool(x) for the values "x or {}" is applied to
truthy(x) == ~(x.t = "none" \/ (x.t = "dict" /\ DOMAIN x.v = {}))

\* x == y in Python: True and False are the integers 1 and 0
py_num(x) == IF x.t = "bool" THEN (IF x.v THEN 1 ELSE 0) ELSE x.v
py_eq(x, y) ==
    IF x.t \in {"bool", "int"} /\ y.t \in {"bool", "int"} THEN py_num(x) = py_num(y)
    ELSE x.t = y.t /\ x = y

---------------------------------------------------------------------------
(* Text: strings as sequences of character codes, compared as Python does *)

CharDot == 46
Char0 == 48
CharT == 84
CharUnderscore == 95
CharLowerT == 116
Digit(n) == Char0 + n
IsDigit(c) == c \in Char0 .. (Char0 + 9)

\* a < b for two strings
RECURSIVE StrLess(_, _)
StrLess(a, b) ==
    IF b = <<>> THEN FALSE
    ELSE IF a = <<>> THEN TRUE
    ELSE IF Head(a) # Head(b) THEN Head(a) < Head(b)
    ELSE StrLess(Tail(a), Tail(b))

---------------------------------------------------------------------------
(* The attempt ledger: storage.py *)

\* The model's clock counts ticks, TicksPerSec ticks to a second.
\* length of one day on the model's clock: the partition of time t is DateOf(t)
DayLen == 2
TicksPerSec == 2
DateOf(t) == t \div DayLen

\* datetime.now().strftime("%Y-%m-%d"): the name of the partition of time t
strftime(t) == <<Digit(DateOf(t))>>

\* datetime.strptime(name, "%Y-%m-%d"): the date a directory name stands for
strptime(name) ==
    IF Len(name) = 1 /\ IsDigit(name[1])
    THEN [raised |-> FALSE, date |-> name[1] - Char0]
    ELSE [raised |-> TRUE, date |-> 0]

\* datetime.now().isoformat(): date, "T", the second, and the fraction of the
\* second unless that fraction is zero
isoformat(t) ==
    IF t % TicksPerSec = 0
    THEN <<Digit(DateOf(t)), CharT, Digit(t \div TicksPerSec)>>
    ELSE <<Digit(DateOf(t)), CharT, Digit(t \div TicksPerSec), CharDot, Digit(t % TicksPerSec)>>

\* the instant an ISO text stands for
fromisoformat(s) ==
    IF Len(s) = 3 THEN (s[3] - Char0) * TicksPerSec
    ELSE (s[3] - Char0) * TicksPerSec + (s[5] - Char0)

\* uuid.uuid4(): a value no other draw returns, named here by the caller (a
\* worker, a task, a request handler) and the number of draws it made before
uuid4(caller, n) == <<caller, n + 1>>
NoId == <<0, 0>>
\* str(uuid)
IdText(id) == <<Digit(id[1]), Digit(id[2])>>

\* The ledger: the directories that exist under the storage directory, and the
\* files in them. A file is named by its directory and by
\* <timestamp>_<attempt_id>.json (ts, id).
EmptyLedger == [parts |-> {}, files |-> {}]

\* line 54: date_dir / f"{timestamp}_{attempt_id}.json"
attempt_fileNoId(date, timestamp, attempt_id) == [date |-> date, ts |-> timestamp, id |-> NoId]

attempt_file(date, timestamp, attempt_id) == [date |-> date, ts |-> timestamp, id |-> attempt_id]

\* the file name as text
FileName(name) == name.ts \o <<CharUnderscore>> \o IdText(name.id)

\* lines 45-51: the attempt record
attempt_dataNoInput(attempt_id, timestamp, input, output, metadata) ==
    PyDict([attempt_id |-> PyStr(attempt_id), timestamp |-> PyStr(timestamp),
            input |-> EmptyDict, output |-> output,
            metadata |-> IF truthy(metadata) THEN metadata ELSE EmptyDict])

attempt_data(attempt_id, timestamp, input, output, metadata) ==
    PyDict([attempt_id |-> PyStr(attempt_id), timestamp |-> PyStr(timestamp),
            input |-> input, output |-> output,
            metadata |-> IF truthy(metadata) THEN metadata ELSE EmptyDict])

\* lines 36-42: storage_path.mkdir(parents=True, exist_ok=True), then
\* date_dir.mkdir(exist_ok=True) for the date read at line 41
ledger_mkdirs(L, d, date) ==
    IF d = "blocked" \/ (d = "readonly" /\ date \notin L.parts)
    THEN [raised |-> TRUE, dir |-> d, ledger |-> L]
    ELSE [raised |-> FALSE, dir |-> IF d = "absent" THEN "ok" ELSE d,
          ledger |-> [L EXCEPT !.parts = @ \cup {date}]]

\* lines 54-56: open(attempt_file, "w") and json.dump; a file of that name is
\* replaced; a dump that raises leaves the text written so far
ledger_writeOneFile(L, d, name, data) ==
    IF d # "ok" \/ name.date \notin L.parts
    THEN [raised |-> TRUE, ledger |-> L]
    ELSE [raised |-> FALSE,
          ledger |-> [L EXCEPT !.files =
              {f \in @ : f.name.date # name.date} \cup {[name |-> name, text |-> json_dump(data)]}]]

ledger_write(L, d, name, data) ==
    IF d # "ok" \/ name.date \notin L.parts
    THEN [raised |-> TRUE, ledger |-> L]
    ELSE IF json_raises(data)
    THEN [raised |-> TRUE,
          ledger |-> [L EXCEPT !.files =
              {f \in @ : f.name # name} \cup {[name |-> name, text |-> Garbage]}]]
    ELSE [raised |-> FALSE,
          ledger |-> [L EXCEPT !.files =
              {f \in @ : f.name # name} \cup {[name |-> name, text |-> json_dump(data)]}]]

\* store_compilation_attempt(input_data, output_data, metadata) as one call:
\* id the uuid drawn at line 33, t1 the clock at line 34, t2 the clock at line 41
store_compilation_attempt(L, d, input, output, metadata, id, t1, t2) ==
    LET m == ledger_mkdirs(L, d, strftime(t2))
        w == ledger_write(m.ledger, m.dir, attempt_file(strftime(t2), isoformat(t1), id),
                          attempt_data(id, isoformat(t1), input, output, metadata))
    IN  IF m.raised THEN [raised |-> TRUE, id |-> NoId, dir |-> m.dir, ledger |-> m.ledger]
        ELSE IF w.raised THEN [raised |-> TRUE, id |-> NoId, dir |-> m.dir, ledger |-> w.ledger]
        ELSE [raised |-> FALSE, id |-> id, dir |-> m.dir, ledger |-> w.ledger]

\* retrieve_attempt(attempt_id): the records it can return, over every order
\* in which the partitions and the files matching "*_<attempt_id>.json" are
\* listed; a file that does not parse is passed over. The empty set: None.
retrieve_attempt(L, d, attempt_id) ==
    IF d \in {"absent", "blocked"} THEN {}
    ELSE {json_load(f.text).value :
             f \in {g \in L.files : g.name.id = attempt_id /\ ~json_load(g.text).raised}}

\* sorted(names, reverse=True)
MaxStr(S) == CHOOSE x \in S : \A y \in S : ~StrLess(x, y)
MinStr(S) == CHOOSE x \in S : \A y \in S : ~StrLess(y, x)

RECURSIVE sorted_forward(_)
sorted_forward(S) ==
    IF S = {} THEN <<>> ELSE <<MinStr(S)>> \o sorted_forward(S \ {MinStr(S)})

RECURSIVE sorted_reverse(_)
sorted_reverse(S) ==
    IF S = {} THEN <<>> ELSE <<MaxStr(S)>> \o sorted_reverse(S \ {MaxStr(S)})

\* the files of directory dir
FilesIn(L, dir) == {f \in L.files : f.name.date = dir}
FileNamed(L, dir, text) == CHOOSE f \in FilesIn(L, dir) : FileName(f.name) = text

\* line 126: sorted(date_dir.glob("*.json"), reverse=True)
glob_sorted(L, dir) ==
    LET names == sorted_reverse({FileName(f.name) : f \in FilesIn(L, dir)})
    IN  [i \in 1 .. Len(names) |-> FileNamed(L, dir, names[i])]

\* lines 120-127: the files in the order query visits them
RECURSIVE attempt_files_of(_, _)
attempt_files_of(L, dirs) ==
    IF dirs = <<>> THEN <<>>
    ELSE glob_sorted(L, Head(dirs)) \o attempt_files_of(L, Tail(dirs))

attempt_files(L) == attempt_files_of(L, sorted_reverse(L.parts))

\* filter_key.split("."): a key is a sequence of words and "." separators
RECURSIVE split(_)
split(key) ==
    IF key = <<>> THEN <<"">>
    ELSE IF Head(key) = "." THEN <<"">> \o split(Tail(key))
    ELSE IF Len(key) = 1 THEN <<Head(key)>>
    ELSE <<Head(key)>> \o split(Tail(Tail(key)))

\* lines 161-166: the walk down the key parts
RECURSIVE resolve(_, _)
resolve(value, parts) ==
    IF parts = <<>> THEN [found |-> TRUE, value |-> value]
    ELSE IF value.t = "dict" /\ Head(parts) \in DOMAIN value.v
    THEN resolve(value.v[Head(parts)], Tail(parts))
    ELSE [found |-> FALSE, value |-> PyNone]

\* _matches_filters(attempt_data, filters); filters a sequence of
\* [key, value], the items of the dict
RECURSIVE matches_filtersAny(_, _)
matches_filtersAny(attempt, filters) ==
    IF filters = <<>> THEN TRUE
    ELSE LET r == resolve(attempt, split(Head(filters).key))
         IN  IF r.found /\ py_eq(r.value, Head(filters).value) THEN TRUE
             ELSE matches_filtersAny(attempt, Tail(filters))

RECURSIVE matches_filters(_, _)
matches_filters(attempt, filters) ==
    IF filters = <<>> THEN TRUE
    ELSE LET r == resolve(attempt, split(Head(filters).key))
         IN  IF ~r.found THEN FALSE
             ELSE IF ~py_eq(r.value, Head(filters).value) THEN FALSE
             ELSE matches_filters(attempt, Tail(filters))

\* lines 130-145: load and filter, up to the limit
RECURSIVE query_loop(_, _, _, _)
query_loop(files, filters, limit, attempts) ==
    IF files = <<>> \/ Len(attempts) >= limit THEN attempts
    ELSE LET a == json_load(Head(files).text)
         IN  IF a.raised THEN query_loop(Tail(files), filters, limit, attempts)
             ELSE IF matches_filters(a.value, filters)
             THEN query_loop(Tail(files), filters, limit, Append(attempts, a.value))
             ELSE query_loop(Tail(files), filters, limit, attempts)

\* query_attempts(filters, limit)
query_attempts(L, d, filters, limit) ==
    IF d \in {"absent", "blocked"} THEN <<>>
    ELSE query_loop(attempt_files(L), filters, limit, <<>>)

\* lines 199-211: one directory after the other; the count is taken from the
\* directory after shutil.rmtree removed it
RECURSIVE cleanup_loopKeepToday(_, _, _, _)
cleanup_loopKeepToday(dirs, L, cutoff, deleted_count) ==
    IF dirs = <<>> THEN [count |-> deleted_count, ledger |-> L]
    ELSE LET dir_date == strptime(Head(dirs))
             removed == [parts |-> L.parts \ {Head(dirs)},
                         files |-> L.files \ FilesIn(L, Head(dirs))]
         IN  IF dir_date.raised THEN cleanup_loopKeepToday(Tail(dirs), L, cutoff, deleted_count)
             ELSE IF (dir_date.date + 1) * DayLen <= cutoff
             THEN cleanup_loopKeepToday(Tail(dirs), removed, cutoff,
                                        deleted_count + Cardinality(FilesIn(removed, Head(dirs))))
             ELSE cleanup_loopKeepToday(Tail(dirs), L, cutoff, deleted_count)

RECURSIVE cleanup_loop(_, _, _, _)
cleanup_loop(dirs, L, cutoff, deleted_count) ==
    IF dirs = <<>> THEN [count |-> deleted_count, ledger |-> L]
    ELSE LET dir_date == strptime(Head(dirs))
             removed == [parts |-> L.parts \ {Head(dirs)},
                         files |-> L.files \ FilesIn(L, Head(dirs))]
         IN  IF dir_date.raised THEN cleanup_loop(Tail(dirs), L, cutoff, deleted_count)
             ELSE IF dir_date.date * DayLen < cutoff
             THEN cleanup_loop(Tail(dirs), removed, cutoff,
                               deleted_count + Cardinality(FilesIn(removed, Head(dirs))))
             ELSE cleanup_loop(Tail(dirs), L, cutoff, deleted_count)

\* cleanup_old_attempts(days_to_keep) at time t
cleanup_old_attempts(L, d, days_to_keep, t) ==
    IF d \in {"absent", "blocked"} THEN [count |-> 0, ledger |-> L]
    ELSE cleanup_loop(sorted_forward(L.parts), L, t - days_to_keep * DayLen, 0)

counts_successfulAll(text) == ~json_load(text).raised

\* lines 253-260: the attempt of a file counts as successful
counts_successful(text) ==
    LET a == json_load(text)
        out == IF a.value.t = "dict" /\ "output" \in DOMAIN a.value.v
               THEN a.value.v["output"] ELSE EmptyDict
    IN  /\ ~a.raised
        /\ a.value.t = "dict"
        /\ out.t = "dict"
        /\ "returncode" \in DOMAIN out.v
        /\ py_eq(out.v["returncode"], PyInt(0))

\* get_storage_stats(): every file is counted, the parsed ones are looked at
get_storage_stats(L, d) ==
    IF d \in {"absent", "blocked"}
    THEN [total_attempts |-> 0, successful_attempts |-> 0, dates |-> {}]
    ELSE [total_attempts |-> Cardinality(L.files),
          successful_attempts |-> Cardinality({f \in L.files : counts_successful(f.text)}),
          dates |-> L.parts]

---------------------------------------------------------------------------
(* Spec: the cache API, called sequentially *)

QuietRest == UNCHANGED <<ledgerVars, workerVars, log, batchVars, compVars, concVars, pureVars>>

InitCache ==
    /\ now = 0
    /\ cacheDir \in {"absent", "blocked"}
    /\ cache = [k \in CacheKeys |-> Missing]
    /\ ret = Ret("none", <<>>, FALSE, FALSE, NoResult)
    /\ stored = [k \in CacheKeys |-> NoStore]

Init == InitCache /\ ledgerDir = "absent" /\ ledger = EmptyLedger /\ nextId = <<>>
        /\ wpc = <<>> /\ wcur = <<>> /\ wdone = <<>> /\ log = <<>>
        /\ reqs = <<>> /\ maxConc = 0 /\ batch = "idle" /\ sem = 0
        /\ tpc = <<>> /\ tres = <<>> /\ compiles = <<>> /\ tloc = <<>> /\ tfail = <<>>
        /\ NoCompilerCall

\* the clock advances
Tick ==
    /\ now < MaxTime
    /\ now' = now + 1
    /\ UNCHANGED <<cacheVars, ledgerVars, workerVars, log, batchVars, compVars, concVars, pureVars>>

\* a call store_cached_result(k, r, ttl_seconds)
Store(k, r, has_ttl, ttl, fault) ==
    LET s == store_cached_result(cache[k], cacheDir, r, has_ttl, ttl, now, fault)
    IN  /\ cacheDir' = s.dir
        /\ cache' = [cache EXCEPT ![k] = s.file]
        /\ ret' = Ret("store", k, s.raised, FALSE, NoResult)
        /\ stored' = [stored EXCEPT ![k] =
               [valid |-> s.wrote, result |-> r, has_ttl |-> has_ttl, ttl |-> ttl, at |-> now]]
        /\ UNCHANGED now /\ QuietRest

\* a call get_cached_result(k)
Lookup(k) ==
    LET g == get_cached_result(cache[k], cacheDir, now)
    IN  /\ cache' = [cache EXCEPT ![k] = g.file]
        /\ ret' = Ret("lookup", k, g.raised, g.hit, g.value)
        /\ UNCHANGED <<now, cacheDir, stored>> /\ QuietRest

\* a call clear_cache()
Clear ==
    LET c == clear_cache(cache, cacheDir)
    IN  /\ cache' = c.cache
        /\ ret' = RetCount("clear", c.raised, c.count)
        /\ stored' = [k \in CacheKeys |-> NoStore]
        /\ UNCHANGED <<now, cacheDir>> /\ QuietRest

\* a call cleanup_expired_cache()
Cleanup ==
    \E order \in Orders(Listed(cache)) :
        LET c == cleanup_expired_cache(order, cache, cacheDir, now, 0)
        IN  /\ cache' = c.cache
            /\ ret' = RetCount("cleanup", c.raised, c.count)
            /\ stored' = [k \in CacheKeys |-> NoStore]
            /\ UNCHANGED <<now, cacheDir>> /\ QuietRest

\* the environment: something else writes garbage into the file of k
EnvCorrupt(k) ==
    /\ cacheDir = "ok" /\ cache[k].kind \in {"missing", "entry"}
    /\ cache' = [cache EXCEPT ![k] = Corrupt]
    /\ stored' = [stored EXCEPT ![k] = NoStore]
    /\ UNCHANGED <<now, cacheDir, ret>> /\ QuietRest

\* the environment: a directory named <k>.json is made (parents=True)
EnvMkdir(k) ==
    /\ cacheDir \in {"absent", "ok"} /\ cache[k].kind = "missing"
    /\ cacheDir' = "ok"
    /\ cache' = [cache EXCEPT ![k] = DirRecord]
    /\ stored' = [stored EXCEPT ![k] = NoStore]
    /\ UNCHANGED <<now, ret>> /\ QuietRest

\* the environment: the cache directory is made read-only, or writable again
EnvChmod ==
    /\ cacheDir \in {"ok", "readonly"}
    /\ cacheDir' = IF cacheDir = "ok" THEN "readonly" ELSE "ok"
    /\ UNCHANGED <<now, cache, ret, stored>> /\ QuietRest

StoreResults == {result_dict(OutSuccess), result_dict(OutNonZero)}

Next ==
    \/ Tick
    \/ \E r \in StoreResults, has_ttl \in BOOLEAN, ttl \in TtlValues, fault \in {"none", "dump"} :
          (has_ttl \/ ttl = 0) /\ Store(Key1, r, has_ttl, ttl, fault)
    \/ Store(Key2, result_dict(OutSuccess), FALSE, 0, "none")
    \/ \E k \in {Key1, Key2} : Lookup(k)
    \/ Clear
    \/ Cleanup
    \/ EnvCorrupt(Key1)
    \/ EnvMkdir(Key1)
    \/ EnvChmod

Spec == Init /\ [][Next]_vars

---------------------------------------------------------------------------
(* SpecLedger: KWorkers workers, each appending MAppends attempts (the threads *)
(* of test_concurrent_storage); a call's steps interleave with the others'     *)

KWorkers == 2
MAppends == 2
\* the clock of SpecLedger runs from 0 to LedgerMaxTime
LedgerMaxTime == 1
Workers == 1 .. KWorkers

NoAttempt == [id |-> NoId, ts |-> 0, input |-> EmptyDict]
\* {"thread": thread_id, "iteration": i}
WorkerInput(w, i) == PyDict([thread |-> PyInt(w), iteration |-> PyInt(i)])
WorkerOutput == PyDict([success |-> PyBool(TRUE)])
WorkerMeta == PyDict([concurrent_test |-> PyBool(TRUE)])

QuietCache == UNCHANGED <<cacheVars, log, batchVars, compVars, concVars, pureVars>>

InitLedger ==
    /\ now = 0
    /\ ledgerDir = "absent" /\ ledger = EmptyLedger
    /\ nextId = [w \in Workers |-> 0]
    /\ wpc = [w \in Workers |-> "idle"]
    /\ wcur = [w \in Workers |-> NoAttempt]
    /\ wdone = [w \in Workers |-> <<>>]
    /\ cacheDir = "absent" /\ cache = [k \in CacheKeys |-> Missing]
    /\ ret = Ret("none", <<>>, FALSE, FALSE, NoResult)
    /\ stored = [k \in CacheKeys |-> NoStore]
    /\ log = <<>>
    /\ reqs = <<>> /\ maxConc = 0 /\ batch = "idle" /\ sem = 0
    /\ tpc = <<>> /\ tres = <<>> /\ compiles = <<>> /\ tloc = <<>> /\ tfail = <<>>
    /\ NoCompilerCall

LedgerTick ==
    /\ now < LedgerMaxTime
    /\ now' = now + 1
    /\ UNCHANGED <<ledgerVars, workerVars>> /\ QuietCache

\* lines 33-34: the id and the timestamp of worker w's next attempt
AppendBegin(w) ==
    /\ wpc[w] = "idle" /\ Len(wdone[w]) < MAppends
    /\ nextId' = [nextId EXCEPT ![w] = @ + 1]
    /\ wcur' = [wcur EXCEPT ![w] =
           [id |-> uuid4(w, nextId[w]), ts |-> now,
            input |-> WorkerInput(w, Len(wdone[w]) + 1)]]
    /\ wpc' = [wpc EXCEPT ![w] = "begun"]
    /\ UNCHANGED <<now, ledgerDir, ledger, wdone>> /\ QuietCache

\* lines 36-58: the directories for the date read now, the record written,
\* the id returned
AppendStore(w) ==
    /\ wpc[w] = "begun"
    /\ LET a == wcur[w]
           x == store_compilation_attempt(ledger, ledgerDir, a.input, WorkerOutput,
                                          WorkerMeta, a.id, a.ts, now)
       IN  /\ ledger' = x.ledger
           /\ ledgerDir' = x.dir
           /\ wdone' = [wdone EXCEPT ![w] =
                  IF x.raised THEN @ ELSE Append(@, [id |-> x.id, input |-> a.input])]
           /\ wpc' = [wpc EXCEPT ![w] = IF x.raised THEN "failed" ELSE "idle"]
           /\ wcur' = [wcur EXCEPT ![w] = NoAttempt]
    /\ UNCHANGED <<now, nextId>> /\ QuietCache

NextLedger ==
    \/ LedgerTick
    \/ \E w \in Workers : AppendBegin(w)
    \/ \E w \in Workers : AppendStore(w)

SpecLedger == InitLedger /\ [][NextLedger]_vars

Returned == {<<w, i>> : w \in Workers, i \in 1 .. MAppends}

\* C5: the ids the workers' appends returned are pairwise distinct, and get of
\* each returns exactly the record that worker appended: no append overwrote
\* or lost another's record, in any interleaving; when all K x M appends have
\* returned, the ledger holds K x M records.
C5_ConcurrentAppendsDistinct ==
    /\ \A w \in Workers : \A i \in 1 .. Len(wdone[w]) :
          /\ \A v \in Workers : \A j \in 1 .. Len(wdone[v]) :
                (<<w, i>> # <<v, j>>) => wdone[w][i].id # wdone[v][j].id
          /\ \E ts \in 0 .. LedgerMaxTime :
                retrieve_attempt(ledger, ledgerDir, wdone[w][i].id) =
                    {attempt_data(wdone[w][i].id, isoformat(ts), wdone[w][i].input,
                                  WorkerOutput, WorkerMeta)}
          /\ wdone[w][i].input = WorkerInput(w, i)
    /\ (\A w \in Workers : Len(wdone[w]) = MAppends)
          => Cardinality(ledger.files) = KWorkers * MAppends

\* C5 witness: every worker has finished its appends, and two records of
\* different workers carry the same timestamp in the same partition
C5_Witness ==
    /\ \A w \in Workers : Len(wdone[w]) = MAppends
    /\ \E f, g \in ledger.files :
          /\ f.name.ts = g.name.ts /\ f.name.date = g.name.date
          /\ json_load(f.text).value.v.input # json_load(g.text).value.v.input

---------------------------------------------------------------------------
(* The compile pipeline of api.py: what compile_content and compile_single share *)

\* cache_compilation_result(content, file_name, project_root, dependencies,
\* timeout): the probe of the cache under the request's key
cache_compilation_result(C, d, params, t) == get_cached_result(C[cache_key(params)], d, t)

\* api.py:191 and 428: store_cached_result(cache_key, result_dict), no ttl,
\* whatever the outcome is
cache_outcomeOnlySuccess(f, d, out, t) ==
    IF success(out) THEN store_cached_result(f, d, result_dict(out), FALSE, 0, t, "none")
    ELSE [raised |-> FALSE, wrote |-> FALSE, dir |-> d, file |-> f]

cache_outcome(f, d, out, t) == store_cached_result(f, d, result_dict(out), FALSE, 0, t, "none")

\* request.metadata (None here: stored as {})
NoMetadata == PyNone

\* api.py:198-204: the input record of an attempt
input_data(params) ==
    PyDict([content |-> PyStr(params.content), file_name |-> PyStr(params.file_name)])

\* result_dict as the output record of an attempt
output_data(r) ==
    PyDict([returncode |-> PyInt(r.returncode), timeout |-> PyBool(r.timeout),
            error |-> IF r.error = NoError THEN PyNone ELSE PyStr(r.error),
            success |-> PyBool(r.success)])

\* api.py:196-207 and 432-443: store_compilation_attempt(input, result_dict, metadata)
log_attempt(L, d, params, out, id, t) ==
    store_compilation_attempt(L, d, input_data(params), output_data(result_dict(out)),
                              NoMetadata, id, t, t)

---------------------------------------------------------------------------
(* SpecSingle: POST /compile/content, one request after another *)

\* at most MaxRequests requests are handled
MaxRequests == 2

\* the requests of SpecSingle
SingleParams == {[content |-> <<"a">>, file_name |-> <<"L">>],
                 [content |-> <<"a", "b">>, file_name |-> <<"L">>]}

\* api.py:157: cached_result.get("success", cached_result["returncode"] == 0)
cached_success(r) ==
    IF "success" \in DOMAIN r THEN r.success ELSE r.returncode = 0

\* CompileResponse, or the HTTP 500 an exception becomes
Response(r, cached, id) ==
    [status |-> "ok", success |-> r.success, returncode |-> r.returncode,
     timeout |-> r.timeout, error |-> r.error, cached |-> cached, attempt_id |-> id]
ErrorResponse ==
    [status |-> "error", success |-> FALSE, returncode |-> 0,
     timeout |-> FALSE, error |-> NoError, cached |-> FALSE, attempt_id |-> NoId]

\* the outcome fields of a response: the result payload
Payload(resp) ==
    [returncode |-> resp.returncode, timeout |-> resp.timeout, error |-> resp.error,
     success |-> resp.success]

\* what one handled request did: the files afterwards, the response, and how
\* far the handler got
Handled(C, cd, L, ld, resp, probe, ncomp, stcall, straised, wrote, apcall, apraised) ==
    [cache |-> C, cacheDir |-> cd, ledger |-> L, ledgerDir |-> ld, resp |-> resp,
     probe |-> probe, compiles |-> ncomp,
     storeCalled |-> stcall, storeRaised |-> straised, wrote |-> wrote,
     appendCalled |-> apcall, appendRaised |-> apraised]

\* compile_content(request): out is what compile_lean_content returns, or
\* craise when it raises; id the uuid the attempt would get
compile_content(C, cd, L, ld, req, out, craise, id, t) ==
    LET k == cache_key(req.params)
        g == cache_compilation_result(C, cd, req.params, t)
        Cg == [C EXCEPT ![k] = g.file]
        s == cache_outcome(Cg[k], cd, out, t)
        Cs == [Cg EXCEPT ![k] = s.file]
        a == log_attempt(L, ld, req.params, out, id, t)
    IN  \* lines 146-153: the probe is outside the try
        IF g.raised
        THEN Handled(Cg, cd, L, ld, ErrorResponse, "raised", 0, FALSE, FALSE, FALSE, FALSE, FALSE)
        \* lines 155-166: served from the cache
        ELSE IF g.hit
        THEN Handled(Cg, cd, L, ld,
                     Response([g.value EXCEPT !.success = cached_success(g.value)], TRUE, NoId),
                     "hit", 0,
                     FALSE, FALSE, FALSE, FALSE, FALSE)
        \* lines 170-177, 222-223
        ELSE IF craise
        THEN Handled(Cg, cd, L, ld, ErrorResponse, "miss", 1, FALSE, FALSE, FALSE, FALSE, FALSE)
        \* line 191
        ELSE IF s.raised
        THEN Handled(Cs, s.dir, L, ld, ErrorResponse, "miss", 1, TRUE, TRUE, FALSE, FALSE, FALSE)
        \* lines 194-195, 210-220
        ELSE IF ~req.store_attempt
        THEN Handled(Cs, s.dir, L, ld, Response(result_dict(out), FALSE, NoId), "miss", 1,
                     TRUE, FALSE, s.wrote, FALSE, FALSE)
        \* lines 196-208
        ELSE IF a.raised
        THEN Handled(Cs, s.dir, a.ledger, a.dir, ErrorResponse, "miss", 1,
                     TRUE, FALSE, s.wrote, TRUE, TRUE)
        ELSE Handled(Cs, s.dir, a.ledger, a.dir, Response(result_dict(out), FALSE, a.id),
                     "miss", 1, TRUE, FALSE, s.wrote, TRUE, FALSE)

Handler == 0
Requests(l) == {i \in 1 .. Len(l) : l[i].kind = "request"}

InitSingle ==
    /\ now = 0
    /\ cacheDir \in {"absent", "readonly", "blocked"}
    /\ cache = [k \in CacheKeys |-> Missing]
    /\ ret = Ret("none", <<>>, FALSE, FALSE, NoResult)
    /\ stored = [k \in CacheKeys |-> NoStore]
    /\ ledgerDir \in {"absent", "readonly", "blocked"}
    /\ ledger = EmptyLedger
    /\ nextId = [c \in {Handler} |-> 0]
    /\ wpc = <<>> /\ wcur = <<>> /\ wdone = <<>>
    /\ log = <<>>
    /\ reqs = <<>> /\ maxConc = 0 /\ batch = "idle" /\ sem = 0
    /\ tpc = <<>> /\ tres = <<>> /\ compiles = <<>> /\ tloc = <<>> /\ tfail = <<>>
    /\ NoCompilerCall

\* one request, handled from the probe to the response
CompileContent(req, out, craise) ==
    /\ Cardinality(Requests(log)) < MaxRequests
    /\ LET h == compile_content(cache, cacheDir, ledger, ledgerDir, req, out, craise,
                                uuid4(Handler, nextId[Handler]), now)
       IN  /\ cache' = h.cache /\ cacheDir' = h.cacheDir
           /\ ledger' = h.ledger /\ ledgerDir' = h.ledgerDir
           /\ nextId' = [nextId EXCEPT ![Handler] = @ + 1]
           /\ log' = Append(log,
                  [kind |-> "request", params |-> req.params, out |-> out, craise |-> craise,
                   cacheDirBefore |-> cacheDir, ledgerDirBefore |-> ledgerDir,
                   resp |-> h.resp, probe |-> h.probe, compiles |-> h.compiles,
                   storeCalled |-> h.storeCalled, storeRaised |-> h.storeRaised,
                   wrote |-> h.wrote, entryAfter |-> h.cache[cache_key(req.params)],
                   appendCalled |-> h.appendCalled, appendRaised |-> h.appendRaised,
                   appended |-> retrieve_attempt(h.ledger, h.ledgerDir, h.resp.attempt_id)])
    /\ ret' = Ret("none", <<>>, FALSE, FALSE, NoResult)
    /\ UNCHANGED <<now, stored, workerVars, batchVars, compVars, concVars, pureVars>>

\* clear_cache() between two requests
SingleClear ==
    /\ log # <<>> /\ log[Len(log)].kind = "request"
    /\ Cardinality(Requests(log)) < MaxRequests
    /\ cache' = clear_cache(cache, cacheDir).cache
    /\ log' = Append(log, [kind |-> "clear"])
    /\ ret' = Ret("none", <<>>, FALSE, FALSE, NoResult)
    /\ UNCHANGED <<now, cacheDir, stored, ledgerVars, workerVars, batchVars, compVars, concVars, pureVars>>

\* GET /health after a request: get_storage_stats()
SingleStats ==
    /\ log # <<>> /\ log[Len(log)].kind = "request"
    /\ ret' = [op |-> "stats", stats |-> get_storage_stats(ledger, ledgerDir)]
    /\ UNCHANGED <<now, cacheDir, cache, stored, ledgerVars, workerVars, log, batchVars,
                   compVars, concVars, pureVars>>

NextSingle ==
    \/ \E p \in SingleParams, sa \in BOOLEAN, out \in CompilerOutcomes, craise \in BOOLEAN :
          /\ craise => out = OutSuccess
          /\ CompileContent([params |-> p, store_attempt |-> sa], out, craise)
    \/ SingleClear
    \/ SingleStats

SpecSingle == InitSingle /\ [][NextSingle]_vars

\* C1: of two requests with identical parameters, one right after the other,
\* the first, when it misses the cache, invokes the compiler exactly once and
\* stores the outcome it got, whatever it is (on a cache medium that can be
\* written); the second is then a cache hit that returns the same result
\* payload with cached=true and does not invoke the compiler.
C1_SecondRequestHitsCache ==
    \A i \in Requests(log) :
        LET e == log[i]
        IN  /\ e.probe = "miss" => e.compiles = 1
            /\ e.probe = "hit" => e.compiles = 0
            /\ (e.probe = "miss" /\ e.storeCalled /\ e.cacheDirBefore \in {"absent", "ok"})
                  => (e.wrote /\ e.entryAfter = File("entry", result_dict(e.out), FALSE, 0))
            /\ e.storeCalled <=> (e.probe = "miss" /\ ~e.craise)
            /\ (i < Len(log) /\ log[i + 1].kind = "request" /\ log[i + 1].params = e.params
                  /\ e.probe = "miss" /\ e.wrote)
                  => LET f == log[i + 1]
                     IN  /\ f.probe = "hit" /\ f.compiles = 0
                         /\ f.resp.status = "ok" /\ f.resp.cached
                         /\ Payload(f.resp) = result_dict(e.out)
                         /\ e.resp.status = "ok" => Payload(f.resp) = Payload(e.resp)

\* C1 witness: a request that timed out was answered with cached=false, and
\* the same request right after it was answered from the cache
C1_Witness ==
    /\ Len(log) >= 2
    /\ log[1].kind = "request" /\ log[2].kind = "request"
    /\ log[1].params = log[2].params
    /\ log[1].probe = "miss" /\ log[1].out = OutTimeout /\ log[1].resp.status = "ok"
    /\ ~log[1].resp.cached
    /\ log[2].resp.cached /\ log[2].resp.timeout

\* the ledger's half of the asymmetry: an append on a ledger that cannot take
\* the record raises, the request is answered with an error, and an id comes
\* back only with its record on disk
LedgerReportsWriteFailures ==
    \A i \in Requests(log) :
        LET e == log[i]
        IN  /\ e.appendCalled => (e.appendRaised <=> e.ledgerDirBefore \in {"readonly", "blocked"})
            /\ e.appendRaised => (e.resp.status = "error" /\ e.appended = {})
            /\ (e.appendCalled /\ ~e.appendRaised)
                  => (e.resp.attempt_id # NoId /\ e.appended # {})

\* C10: the ledger append raises when the partition cannot be created or the
\* record cannot be written and returns an id only for a record that was
\* written, while the cache store returns normally on the same failures (its
\* directory cannot be created, its record cannot be written).
C10_LedgerRaisesCacheStoreReturns ==
    /\ LedgerReportsWriteFailures
    /\ \A i \in Requests(log) :
          (log[i].storeCalled /\ log[i].cacheDirBefore \in {"readonly", "blocked"})
              => (~log[i].storeRaised /\ ~log[i].wrote)

\* the triple condition on an outcome's return code, timed-out flag and error
Triple(returncode, timeout, error) == returncode = 0 /\ timeout = FALSE /\ error = NoError

\* the triple condition on the output record of a ledger file
StoredTriple(text) ==
    LET a == json_load(text)
    IN  /\ ~a.raised
        /\ LET output == a.value.v["output"].v
            IN  /\ output["returncode"] = PyInt(0)
                /\ output["timeout"] = PyBool(FALSE)
                /\ output["error"] = PyNone

\* C24: the success field of every compile response, built from a fresh
\* outcome or from a cache hit, is the triple condition on the return code,
\* timed-out flag and error of the outcome it reports (for a fresh one, the
\* outcome the compiler returned), and the successful-attempt count of the
\* ledger statistics is the number of stored attempts whose output satisfies
\* the triple condition
C24_OneSuccessPredicate ==
    /\ \A i \in Requests(log) :
          LET e == log[i]
          IN  e.resp.status = "ok"
              => /\ e.resp.success <=> Triple(e.resp.returncode, e.resp.timeout, e.resp.error)
                 /\ e.probe = "miss"
                    => (e.resp.success <=> Triple(e.out.returncode, e.out.timeout, e.out.error))
    /\ (ret.op = "stats" /\ ledgerDir \in {"ok", "readonly"})
          => ret.stats.successful_attempts
                = Cardinality({f \in ledger.files : StoredTriple(f.text)})

\* a successful outcome was stored in the ledger and the cache, served again
\* from the cache, and counted by the statistics
C24_Witness ==
    /\ Len(log) = 2
    /\ log[1].kind = "request" /\ log[1].probe = "miss" /\ log[1].resp.success
    /\ log[2].kind = "request" /\ log[2].probe = "hit" /\ log[2].resp.success
    /\ ret.op = "stats" /\ ret.stats.successful_attempts = 1

---------------------------------------------------------------------------
(* SpecBatch: POST /compile/batch and _run_batch_compilation *)

\* a batch has at most NumReqs requests and a ceiling of at most MaxConc
NumReqs == 2
MaxConc == 2

\* the ceilings a BatchCompileRequest accepts: max_concurrent is an
\* unconstrained int
MinConc == -1
Ceilings == MinConc .. MaxConc

BatchRequests == {[params |-> [content |-> <<"a">>, file_name |-> <<"L">>], store_attempt |-> TRUE],
                  [params |-> [content |-> <<"a", "b">>, file_name |-> <<"L">>], store_attempt |-> FALSE]}
Batches == UNION {[1 .. n -> BatchRequests] : n \in 0 .. NumReqs}

\* what compile_lean_content does in a batch
BatchOutcomes == {OutSuccess, OutLaunch}

Tasks == DOMAIN reqs
NoRecord == [none |-> TRUE]
\* line 448: {"error": str(e), "success": False}
FailedRecord(step) == [error |-> step, success |-> FALSE]
\* the section guarded by the semaphore
InFlightPcs == {"probe", "compile", "store", "append"}
InFlight == {i \in Tasks : tpc[i] \in InFlightPcs}

\* the files a batch may find: nothing yet, a cache directory that cannot be
\* created, a record path that is a directory, a ledger that cannot be written
InitBatch ==
    /\ now = 0
    /\ ret = Ret("none", <<>>, FALSE, FALSE, NoResult)
    /\ stored = [k \in CacheKeys |-> NoStore]
    /\ \E fault \in {"none", "cachedir", "record", "ledger"} :
          /\ cacheDir = (IF fault = "cachedir" THEN "blocked"
                         ELSE IF fault = "record" THEN "ok" ELSE "absent")
          /\ cache = [k \in CacheKeys |-> IF fault = "record" /\ k = Key1 THEN DirRecord ELSE Missing]
          /\ ledgerDir = (IF fault = "ledger" THEN "blocked" ELSE "absent")
    /\ ledger = EmptyLedger
    /\ wpc = <<>> /\ wcur = <<>> /\ wdone = <<>>
    /\ log = <<>>
    /\ reqs \in Batches
    /\ maxConc \in Ceilings
    /\ batch = "queued"
    /\ sem = 0
    /\ nextId = [i \in DOMAIN reqs |-> 0]
    /\ tpc = [i \in DOMAIN reqs |-> "wait"]
    /\ tres = [i \in DOMAIN reqs |-> NoRecord]
    /\ compiles = [i \in DOMAIN reqs |-> 0]
    /\ tloc = [i \in DOMAIN reqs |-> OutSuccess]
    /\ tfail = [i \in DOMAIN reqs |-> "none"]
    /\ NoCompilerCall

QuietBatch == UNCHANGED <<now, ret, stored, workerVars, log, reqs, maxConc, compVars, concVars, pureVars>>

\* line 390: asyncio.Semaphore(max_concurrent) raises ValueError below zero,
\* which ends the background task before any request is started
BatchStart ==
    /\ batch = "queued"
    /\ IF maxConc < 0
       THEN batch' = "aborted" /\ sem' = sem
       ELSE batch' = "running" /\ sem' = maxConc
    /\ UNCHANGED <<cacheVars, ledgerVars, tpc, tres, compiles, tloc, tfail>>
    /\ QuietBatch

\* line 393: async with semaphore, entered without a wait only when a slot is free
AcquireNoWait(i) ==
    /\ batch = "running" /\ tpc[i] = "wait"
    /\ sem' = sem - 1
    /\ tpc' = [tpc EXCEPT ![i] = "probe"]
    /\ UNCHANGED <<batch, cacheVars, ledgerVars, tres, compiles, tloc, tfail>>
    /\ QuietBatch

Acquire(i) ==
    /\ batch = "running" /\ tpc[i] = "wait"
    /\ sem > 0
    /\ sem' = sem - 1
    /\ tpc' = [tpc EXCEPT ![i] = "probe"]
    /\ UNCHANGED <<batch, cacheVars, ledgerVars, tres, compiles, tloc, tfail>>
    /\ QuietBatch

\* lines 447-448 and the exit of the async with: the exception of one request
\* becomes its record, and its slot is released
FailAbort(i, step) ==
    /\ tpc' = [tpc EXCEPT ![i] = "done"]
    /\ tres' = tres
    /\ tfail' = [tfail EXCEPT ![i] = step]
    /\ sem' = sem
    /\ batch' = "aborted"

Fail(i, step) ==
    /\ tpc' = [tpc EXCEPT ![i] = "done"]
    /\ tres' = [tres EXCEPT ![i] = FailedRecord(step)]
    /\ tfail' = [tfail EXCEPT ![i] = step]
    /\ sem' = sem + 1
    /\ batch' = batch

\* lines 405-406 and 445: return cached_result / return result_dict
Return(i, r) ==
    /\ tpc' = [tpc EXCEPT ![i] = "done"]
    /\ tres' = [tres EXCEPT ![i] = r]
    /\ tfail' = tfail
    /\ sem' = sem + 1
    /\ batch' = batch

\* lines 396-406
Probe(i) ==
    /\ batch = "running" /\ tpc[i] = "probe"
    /\ LET k == cache_key(reqs[i].params)
           g == cache_compilation_result(cache, cacheDir, reqs[i].params, now)
       IN  /\ cache' = [cache EXCEPT ![k] = g.file]
           /\ IF g.raised THEN Fail(i, "probe")
              ELSE IF g.hit THEN Return(i, g.value)
              ELSE /\ tpc' = [tpc EXCEPT ![i] = "compile"]
                   /\ UNCHANGED <<tres, tfail, sem, batch>>
    /\ UNCHANGED <<cacheDir, ledgerVars, compiles, tloc>>
    /\ QuietBatch

\* lines 408-425
Compile(i, out, craise) ==
    /\ batch = "running" /\ tpc[i] = "compile"
    /\ compiles' = [compiles EXCEPT ![i] = @ + 1]
    /\ IF craise
       THEN Fail(i, "compile") /\ tloc' = tloc
       ELSE /\ tloc' = [tloc EXCEPT ![i] = out]
            /\ tpc' = [tpc EXCEPT ![i] = "store"]
            /\ UNCHANGED <<tres, tfail, sem, batch>>
    /\ UNCHANGED <<cacheVars, ledgerVars>>
    /\ QuietBatch

\* lines 427-431 and, without store_attempt, 445
StoreStep(i) ==
    /\ batch = "running" /\ tpc[i] = "store"
    /\ LET k == cache_key(reqs[i].params)
           s == cache_outcome(cache[k], cacheDir, tloc[i], now)
       IN  /\ cache' = [cache EXCEPT ![k] = s.file]
           /\ cacheDir' = s.dir
           /\ IF s.raised THEN Fail(i, "store")
              ELSE IF reqs[i].store_attempt
              THEN /\ tpc' = [tpc EXCEPT ![i] = "append"]
                   /\ UNCHANGED <<tres, tfail, sem, batch>>
              ELSE Return(i, result_dict(tloc[i]))
    /\ UNCHANGED <<ledgerVars, compiles, tloc>>
    /\ QuietBatch

\* lines 432-445
AppendStep(i) ==
    /\ batch = "running" /\ tpc[i] = "append"
    /\ LET a == log_attempt(ledger, ledgerDir, reqs[i].params, tloc[i],
                            uuid4(i, nextId[i]), now)
       IN  /\ ledger' = a.ledger
           /\ ledgerDir' = a.dir
           /\ nextId' = [nextId EXCEPT ![i] = @ + 1]
           /\ IF a.raised THEN Fail(i, "append")
              ELSE Return(i, result_dict(tloc[i]))
    /\ UNCHANGED <<cacheVars, compiles, tloc>>
    /\ QuietBatch

\* line 451: asyncio.gather returns when every compile_single has returned
BatchFinish ==
    /\ batch = "running"
    /\ \A i \in Tasks : tpc[i] = "done"
    /\ batch' = "done"
    /\ UNCHANGED <<cacheVars, ledgerVars, sem, tpc, tres, compiles, tloc, tfail>>
    /\ QuietBatch

NextBatch ==
    \/ BatchStart
    \/ \E i \in Tasks : Acquire(i)
    \/ \E i \in Tasks : Probe(i)
    \/ \E i \in Tasks, out \in BatchOutcomes, craise \in BOOLEAN :
          (craise => out = OutSuccess) /\ Compile(i, out, craise)
    \/ \E i \in Tasks : StoreStep(i)
    \/ \E i \in Tasks : AppendStep(i)
    \/ BatchFinish

SpecBatch == InitBatch /\ [][NextBatch]_vars

\* the event loop runs whatever is ready, and every threadpool call returns
SpecBatchFair == InitBatch /\ [][NextBatch]_vars /\ WF_vars(NextBatch)

\* C2: while a batch with ceiling N runs, and after it, the number of requests
\* inside the section guarded by the semaphore (probe, compile, store, append)
\* is at most N, and the free slots and the requests in flight add up to N.
C2_InFlightAtMostCeiling ==
    batch \in {"running", "done"}
        => /\ Cardinality(InFlight) <= maxConc
           /\ sem >= 0
           /\ sem + Cardinality(InFlight) = maxConc

\* C2 witness: every slot is taken and another request waits for one
C2_Witness ==
    /\ batch = "running" /\ maxConc >= 1
    /\ Cardinality(InFlight) = maxConc
    /\ \E i \in Tasks : tpc[i] = "wait"

\* a request whose processing raised has its failed record and nothing else
FailuresAreRecords ==
    \A i \in Tasks :
        tfail[i] # "none"
            => /\ tpc[i] = "done"
               /\ tres[i] = FailedRecord(tfail[i])
               /\ ~tres[i].success
               /\ batch \in {"running", "done"}

\* the failure of one request touches no other request and frees its slot
FailuresAreIsolated ==
    \A i \in Tasks :
        tfail'[i] # tfail[i]
            => /\ \A j \in Tasks \ {i} : tpc'[j] = tpc[j] /\ tres'[j] = tres[j] /\ tfail'[j] = tfail[j]
               /\ sem' = sem + 1
               /\ batch' = batch

\* C3: an exception from the probe, the compiler, the cache store or the
\* ledger append of one request of a batch becomes the failed record
\* (success=false, an error) of that request only; the other requests are
\* untouched by it, every request of the batch still gets to its own record,
\* and the batch finishes instead of aborting.
C3_RequestFailureIsIsolated ==
    /\ []FailuresAreRecords
    /\ [][FailuresAreIsolated]_vars
    /\ [](batch = "done" => \A i \in Tasks : tres[i] # NoRecord)
    /\ \A n \in 1 .. NumReqs :
          (n \in Tasks /\ tfail[n] # "none")
              ~> (batch = "done" /\ \A j \in Tasks : tpc[j] = "done" /\ tres[j] # NoRecord)

\* C3 witness: in a finished batch the ledger append of one request failed and
\* became its record, while another request has the record of its compilation
C3_Witness ==
    /\ batch = "done"
    /\ \E i, j \in Tasks :
          /\ tfail[i] = "append" /\ tres[i] = FailedRecord("append")
          /\ tfail[j] = "none" /\ tres[j] = result_dict(OutSuccess)

\* C4: every batch eventually completes, whatever list of requests and
\* whatever ceiling the batch request accepted: every request gets a slot,
\* finishes and releases it.
C4_EveryBatchCompletes ==
    <>(batch = "done" /\ \A i \in Tasks : tpc[i] = "done" /\ sem = maxConc)

\* with a ceiling of at least one the batch does complete
PositiveCeilingCompletes ==
    (maxConc >= 1) ~> (batch = "done" /\ \A i \in Tasks : tpc[i] = "done")

---------------------------------------------------------------------------
(* SpecStore: the ledger API called sequentially (append, get, query, stats, *)
(* purge), with a clock, and files that are not attempts                     *)

\* the clock of SpecStore runs from 0 to StoreMaxTime; at most MaxAppends appends
StoreMaxTime == 3
MaxAppends == 2

RcZero == PyDict([returncode |-> PyInt(0)])
RcOne == PyDict([returncode |-> PyInt(1)])
MetaBench == PyDict([benchmark |-> PyStr("a")])
MetaNested == PyDict([benchmark |-> PyDict([name |-> PyStr("a")])])
TheInput == PyDict([content |-> PyStr("x")])

\* the calls of append that are made
AppendCalls ==
    {[input |-> TheInput, output |-> RcZero, metadata |-> PyNone],
     [input |-> TheInput, output |-> RcOne, metadata |-> MetaBench],
     [input |-> TheInput, output |-> RcZero, metadata |-> MetaNested],
     [input |-> EmptyDict, output |-> RcZero, metadata |-> PyCircular]}

\* the filters of the queries that are made
NoFilters == <<>>
FilterBench == <<[key |-> <<"metadata", ".", "benchmark">>, value |-> PyStr("a")]>>
FilterNested == <<[key |-> <<"metadata", ".", "benchmark", ".", "name">>, value |-> PyStr("a")]>>
FilterBoth == <<[key |-> <<"output", ".", "returncode">>, value |-> PyInt(1)],
                [key |-> <<"metadata", ".", "benchmark">>, value |-> PyStr("a")]>>
FilterInvalid == <<[key |-> <<".", ".", "invalid", ".", ".", "key">>, value |-> PyStr("a")]>>
QueryFilters == {NoFilters, FilterBench, FilterNested, FilterBoth, FilterInvalid}
MinLimit == -1
QueryLimits == {MinLimit, 1, MaxAppends}
MinDays == -1
MaxDays == 1
PurgeDays == MinDays .. MaxDays

\* the id in the name of a file that something else put into the ledger
GarbageId == <<9, 9>>
OtherDir == <<CharLowerT>>

NoRet == [op |-> "none"]

InitStore ==
    /\ now = 0
    /\ ledgerDir = "absent" /\ ledger = EmptyLedger
    /\ nextId = [c \in {Handler} |-> 0]
    /\ log = <<>>
    /\ ret = NoRet
    /\ cacheDir = "absent" /\ cache = [k \in CacheKeys |-> Missing]
    /\ stored = [k \in CacheKeys |-> NoStore]
    /\ wpc = <<>> /\ wcur = <<>> /\ wdone = <<>>
    /\ reqs = <<>> /\ maxConc = 0 /\ batch = "idle" /\ sem = 0
    /\ tpc = <<>> /\ tres = <<>> /\ compiles = <<>> /\ tloc = <<>> /\ tfail = <<>>
    /\ NoCompilerCall

QuietStore == UNCHANGED <<cacheDir, cache, stored, workerVars, batchVars, compVars, concVars, pureVars>>

StoreTick ==
    /\ now < StoreMaxTime
    /\ now' = now + 1
    /\ ret' = NoRet
    /\ UNCHANGED <<ledgerVars, log>> /\ QuietStore

\* a call store_compilation_attempt(input, output, metadata)
StoreAppend(c) ==
    /\ Len(log) < MaxAppends
    /\ LET x == store_compilation_attempt(ledger, ledgerDir, c.input, c.output, c.metadata,
                                          uuid4(Handler, nextId[Handler]), now, now)
       IN  /\ ledger' = x.ledger
           /\ ledgerDir' = x.dir
           /\ nextId' = [nextId EXCEPT ![Handler] = @ + 1]
           /\ log' = Append(log, [id |-> x.id, raised |-> x.raised, call |-> c,
                                  at |-> now, purged |-> FALSE])
           /\ ret' = [op |-> "append", raised |-> x.raised, id |-> x.id]
    /\ UNCHANGED now /\ QuietStore

\* a call retrieve_attempt(id)
StoreGet(id) ==
    /\ \E r \in (IF retrieve_attempt(ledger, ledgerDir, id) = {} THEN {PyNone}
                ELSE retrieve_attempt(ledger, ledgerDir, id)) :
          ret' = [op |-> "get", id |-> id, value |-> r]
    /\ UNCHANGED <<now, ledgerVars, log>> /\ QuietStore

\* a call query_attempts(filters, limit)
StoreQuery(filters, limit) ==
    /\ ret' = [op |-> "query", filters |-> filters, limit |-> limit,
               value |-> query_attempts(ledger, ledgerDir, filters, limit)]
    /\ UNCHANGED <<now, ledgerVars, log>> /\ QuietStore

\* a call get_storage_stats()
StoreStats ==
    /\ ret' = [op |-> "stats", value |-> get_storage_stats(ledger, ledgerDir)]
    /\ UNCHANGED <<now, ledgerVars, log>> /\ QuietStore

\* a call cleanup_old_attempts(days)
StorePurge(days) ==
    /\ LET c == cleanup_old_attempts(ledger, ledgerDir, days, now)
       IN  /\ ledger' = c.ledger
           /\ ret' = [op |-> "purge", days |-> days, count |-> c.count]
           /\ log' = [i \in DOMAIN log |->
                  IF ~log[i].raised /\ strftime(log[i].at) \notin c.ledger.parts
                  THEN [log[i] EXCEPT !.purged = TRUE] ELSE log[i]]
    /\ UNCHANGED <<now, ledgerDir, nextId>> /\ QuietStore

\* the environment: a directory whose name is not a date, with a file in it
\* that is not JSON
EnvOtherDir ==
    /\ ledgerDir \in {"absent", "ok"}
    /\ OtherDir \notin ledger.parts
    /\ ledgerDir' = "ok"
    /\ ledger' = [parts |-> ledger.parts \cup {OtherDir},
                  files |-> ledger.files \cup
                      {[name |-> attempt_file(OtherDir, isoformat(now), GarbageId),
                        text |-> Garbage]}]
    /\ ret' = NoRet
    /\ UNCHANGED <<now, nextId, log>> /\ QuietStore

\* the ids a caller may ask for: the ones append returned, and others
KnownIds == {uuid4(Handler, i - 1) : i \in DOMAIN log} \cup {NoId, GarbageId}

\* the caller makes one call after the other: the result of a read is
\* looked at and dropped before the next call
ReadOps == {"get", "query", "stats"}
Idle == ret.op \notin ReadOps

Forget ==
    /\ ~Idle
    /\ ret' = NoRet
    /\ UNCHANGED <<now, ledgerVars, log>> /\ QuietStore

\* the appends of SpecStore: metadata omitted, and given
StoreCalls ==
    {[input |-> TheInput, output |-> RcZero, metadata |-> PyNone],
     [input |-> TheInput, output |-> RcOne, metadata |-> MetaBench]}

NextStore ==
    \/ Idle /\ StoreTick
    \/ \E c \in StoreCalls : Idle /\ StoreAppend(c)
    \/ \E id \in KnownIds : Idle /\ StoreGet(id)
    \/ Idle /\ StoreQuery(NoFilters, MaxAppends)
    \/ Idle /\ StoreStats
    \/ \E days \in PurgeDays : Idle /\ StorePurge(days)
    \/ Idle /\ EnvOtherDir
    \/ Forget

SpecStore == InitStore /\ [][NextStore]_vars

\* what get returns for a logged append: the record with the values passed
ExpectedRecord(e, r) ==
    /\ r.t = "dict"
    /\ r.v.attempt_id = PyStr(e.id)
    /\ r.v.input = e.call.input
    /\ r.v.output = e.call.output
    /\ r.v.metadata = (IF e.call.metadata.t = "none" THEN EmptyDict ELSE e.call.metadata)

\* C11: for every id that append returned, while the record's partition has
\* not been purged, get(id) returns exactly one record, whose attempt_id is
\* id, whose input and output are the values passed to append, and whose
\* metadata is the one passed, or the empty mapping when none was passed.
C11_AppendThenGet ==
    /\ \A i \in DOMAIN log :
          (~log[i].raised /\ ~log[i].purged)
              => /\ Cardinality(retrieve_attempt(ledger, ledgerDir, log[i].id)) = 1
                 /\ \A r \in retrieve_attempt(ledger, ledgerDir, log[i].id) :
                       ExpectedRecord(log[i], r)
    /\ ret.op = "get"
          => \A i \in DOMAIN log :
                (log[i].id = ret.id /\ ~log[i].raised /\ ~log[i].purged)
                    => ExpectedRecord(log[i], ret.value)

\* C11 witness: get returned the record of an append made without metadata,
\* with the empty mapping as its metadata
C11_Witness ==
    /\ ret.op = "get" /\ ret.value.t = "dict"
    /\ \E i \in DOMAIN log :
          /\ log[i].id = ret.id /\ log[i].call.metadata.t = "none"
          /\ ret.value.v.metadata = EmptyDict
          /\ ret.value.v.input = TheInput

\* C12: no step of append, get, query, stats or purge changes a file that
\* exists: a file stays as it is unless purge removed its whole partition,
\* and get(id) of an appended record returns the same record until then.
C12_AttemptsAreImmutable ==
    [][/\ \A f \in ledger.files :
             \/ f \in ledger'.files
             \/ ret'.op = "purge" /\ f.name.date \notin ledger'.parts
       /\ \A i \in DOMAIN log :
             ~log[i].raised
                 => \/ retrieve_attempt(ledger', ledgerDir', log[i].id)
                          = retrieve_attempt(ledger, ledgerDir, log[i].id)
                    \/ ret'.op = "purge" /\ strftime(log[i].at) \notin ledger'.parts]_vars

\* C12 witness: two records appended at the same instant; a purge took one
\* partition and the record of another partition is still the one appended
C12_Witness ==
    /\ ret.op = "purge"
    /\ \E i, j \in DOMAIN log :
          /\ log[i].purged /\ ~log[j].raised /\ ~log[j].purged
          /\ \A r \in retrieve_attempt(ledger, ledgerDir, log[j].id) : ExpectedRecord(log[j], r)
          /\ retrieve_attempt(ledger, ledgerDir, log[j].id) # {}
          /\ retrieve_attempt(ledger, ledgerDir, log[i].id) = {}

\* the partitions purge(days) at time t is to remove: the directories named
\* by a date that is strictly older than t - days
IsDate(p) == ~strptime(p).raised
OlderThan(L, days, t) == {p \in L.parts : IsDate(p) /\ strptime(p).date * DayLen < t - days * DayLen}

\* C16: the count purge returns is the number of record files that were, before
\* the call, in the partitions the call removed.
C16_PurgeCountsDeleted ==
    [][ret'.op = "purge"
          => ret'.count = Cardinality({f \in ledger.files : f.name.date \notin ledger'.parts})]_vars

---------------------------------------------------------------------------
(* SpecQuery: appends and the reads of the ledger (get, query, stats), with  *)
(* records made within one second and the files failed appends leave         *)

\* the clock of SpecQuery runs from 0 to QueryMaxTime
QueryMaxTime == 2

QueryTick ==
    /\ now < QueryMaxTime
    /\ now' = now + 1
    /\ ret' = NoRet
    /\ UNCHANGED <<ledgerVars, log>> /\ QuietStore

NextQuery ==
    \/ Idle /\ QueryTick
    \/ \E c \in AppendCalls : Idle /\ StoreAppend(c)
    \/ \E id \in KnownIds : Idle /\ StoreGet(id)
    \/ \E filters \in QueryFilters, limit \in QueryLimits : Idle /\ StoreQuery(filters, limit)
    \/ Idle /\ StoreStats
    \/ Forget

SpecQuery == InitStore /\ [][NextQuery]_vars

---------------------------------------------------------------------------
(* SpecCompile: compile_lean_file and compile_lean_content, with the child  *)
(* process, the clock and the files of the working directory               *)

\* calls are made up to time CompMaxTime, where the clock stops unless a
\* call is blocked
CompMaxTime == 2
\* timeout is one of 0 .. MaxTimeout seconds
MaxTimeout == 1
\* subprocess.run notices the expired timeout at most Grace later
Grace == 1
\* compile_lean_content is called at most MaxCalls times
MaxCalls == 2

Timeouts == 0 .. MaxTimeout
ExitCodes == {0, 1}

\* file names are token sequences: words, "." and "/" and "-"; "LONG" is a
\* word longer than the file system's limit for one path component
TempNames ==
    {<<"t">>, <<"t", ".", "lean">>, <<"a", "-", "b">>, <<"sub", "/", "t", ".", "lean">>,
     <<"LONG", ".", "lean">>}
\* content is text that can be encoded as UTF-8, or holds a lone surrogate
CompileContents == {"text", "surrogate"}
MainFile == [hex |-> NoId, rest |-> <<"Main", ".", "lean">>]

\* str.endswith(".lean")
endswith_lean(name) ==
    Len(name) >= 2 /\ name[Len(name) - 1] = "." /\ name[Len(name)] = "lean"

\* compiler.py:186-187
ensure_lean(file_name) ==
    IF endswith_lean(file_name) THEN file_name ELSE file_name \o <<".", "lean">>

\* str.replace("-", "_")
replace_dash(name) == [i \in DOMAIN name |-> IF name[i] = "-" THEN "_" ELSE name[i]]

unique_nameNoUuid(id, file_name) == [hex |-> NoId, rest |-> replace_dash(<<"_">> \o file_name)]

\* compiler.py:201: f"{uuid.uuid4().hex}_{file_name}".replace("-", "_")
unique_name(id, file_name) == [hex |-> id, rest |-> replace_dash(<<"_">> \o file_name)]

RECURSIVE last_index(_, _)
last_index(s, tok) ==
    IF s = <<>> THEN 0
    ELSE IF s[Len(s)] = tok THEN Len(s)
    ELSE last_index(SubSeq(s, 1, Len(s) - 1), tok)

\* Path.with_suffix: the part of the last component from its last dot on (a
\* leading or trailing dot is no suffix) is replaced
with_suffix(p, suffix) ==
    LET slash == last_index(p.rest, "/")
        dot == last_index(p.rest, ".")
    IN  IF dot > slash + 1 /\ dot < Len(p.rest)
        THEN [p EXCEPT !.rest = SubSeq(p.rest, 1, dot - 1) \o <<".", suffix>>]
        ELSE [p EXCEPT !.rest = p.rest \o <<".", suffix>>]

olean_of(p) == with_suffix(p, "olean")

has_token(p, tok) == \E i \in DOMAIN p.rest : p.rest[i] = tok

\* CompilerOutput as compile_lean_file builds it (stdout, stderr, args, cwd
\* are opaque and left out)
CompilerOutput(rc, timed_out, err, duration) ==
    [returncode |-> rc, timeout |-> timed_out, error |-> err, duration_ms |-> duration]

\* int((time.time() - start_time) * 1000)
duration_ms(start_time, t) == (t - start_time) * 1000

\* compiler.py:133-142
returned(rc, start_time, t) == CompilerOutput(rc, FALSE, NoError, duration_ms(start_time, t))

timed_outZeroCode(start_time, t) ==
    CompilerOutput(0, TRUE, "Compilation timeout", duration_ms(start_time, t))

\* compiler.py:144-153
timed_out(start_time, t) ==
    CompilerOutput(-1, TRUE, "Compilation timeout", duration_ms(start_time, t))

launch_failedAsExit(e, start_time, t) ==
    CompilerOutput(1, FALSE, NoError, duration_ms(start_time, t))

\* compiler.py:154-162
launch_failed(e, start_time, t) ==
    CompilerOutput(-1, FALSE, e, duration_ms(start_time, t))

\* compiler.py:213-219 (duration_ms keeps its default)
write_failed(e) == CompilerOutput(-1, FALSE, "Failed to write temporary file: " \o e, 0)

\* subprocess.run, the launch: the error Popen raises, or "None"
launch_error(W) ==
    IF W.state = "absent" THEN "[Errno 2] No such file or directory: cwd"
    ELSE IF W.lean = "missing" THEN "[Errno 2] No such file or directory: 'lean'"
    ELSE IF W.lean = "noexec" THEN "[Errno 13] Permission denied: 'lean'"
    ELSE NoError

\* Path.write_text(full_content): the error it raises, or "None", and whether
\* the file exists afterwards (open creates it before the text is encoded)
write_text(W, p, content) ==
    IF W.state = "absent" THEN [error |-> "[Errno 2]", created |-> FALSE]
    ELSE IF has_token(p, "/") THEN [error |-> "[Errno 2]", created |-> FALSE]
    ELSE IF has_token(p, "LONG") THEN [error |-> "[Errno 36]", created |-> FALSE]
    ELSE IF W.state = "readonly" THEN [error |-> "[Errno 13]", created |-> FALSE]
    ELSE IF content = "surrogate" THEN [error |-> "surrogates not allowed", created |-> TRUE]
    ELSE [error |-> NoError, created |-> TRUE]

\* Path.exists raises for an error other than "no such file" (Python 3.11)
exists_raises(p) == has_token(p, "LONG")

cleanupKeepOlean(files, temp_file) == files \ {temp_file}

\* compiler.py:220-234, the finally block: both files are unlinked if they exist
cleanup(files, temp_file) == files \ {temp_file, olean_of(temp_file)}

\* what a call returned: the outcome (or that the call raised), which way out
\* it took, the temporary file it named and the files its cleanup removed
CompRet(op, raised, cause, out, temp, removed) ==
    [op |-> op, raised |-> raised, cause |-> cause, out |-> out, temp |-> temp,
     removed |-> removed]

\* the files left when a call returns: compile_lean_content cleans up
left_files(kind, files, temp) == IF kind = "content" THEN cleanup(files, temp) ELSE files

\* the working directory and the lean binary a call may find
InitCompile ==
    /\ now = 0
    /\ cpc = "idle" /\ ccall = NoCall /\ proc = "none"
    /\ workdir \in [state : {"ok", "absent", "readonly"}, lean : {"ok", "missing", "noexec"},
                    files : {{}}]
    /\ ret = NoRet
    /\ nextId = [c \in {Handler} |-> 0]
    /\ cacheDir = "absent" /\ cache = [k \in CacheKeys |-> Missing]
    /\ stored = [k \in CacheKeys |-> NoStore]
    /\ ledgerDir = "absent" /\ ledger = EmptyLedger
    /\ wpc = <<>> /\ wcur = <<>> /\ wdone = <<>> /\ log = <<>>
    /\ reqs = <<>> /\ maxConc = 0 /\ batch = "idle" /\ sem = 0
    /\ tpc = <<>> /\ tres = <<>> /\ compiles = <<>> /\ tloc = <<>> /\ tfail = <<>>
    /\ inv = <<>> /\ scan = <<>>
    /\ arg = <<>> /\ val = <<>>

QuietCompile ==
    UNCHANGED <<cacheDir, cache, stored, ledgerDir, ledger, workerVars, log, batchVars,
                concVars, pureVars>>

Alive == proc \in {"running", "hung"}
Deadline == ccall.start_time + ccall.timeout

\* the clock advances; a blocked subprocess.run lets it pass the deadline by
\* Grace at most
CompTick ==
    /\ IF cpc = "running" THEN now < Deadline + Grace ELSE now < CompMaxTime
    /\ now' = now + 1
    /\ ret' = NoRet
    /\ UNCHANGED <<nextId, compVars, concVars, pureVars>> /\ QuietCompile

\* compile_lean_file(file_path, project_root, timeout) up to the point where
\* subprocess.run either failed to launch the child or waits for it; a child
\* that started either exits by itself at some time or never does ("hung")
start_file(kind, temp, created, timeout) ==
    LET e == launch_error(workdir)
        files == IF created THEN workdir.files \cup {temp} ELSE workdir.files
    IN  IF e # NoError
        THEN /\ ret' = CompRet(kind, FALSE, "launch", launch_failed(e, now, now), temp,
                               files \ left_files(kind, files, temp))
             /\ cpc' = "idle" /\ ccall' = NoCall /\ proc' = "none"
             /\ workdir' = [workdir EXCEPT !.files = left_files(kind, files, temp)]
        ELSE /\ ret' = NoRet
             /\ cpc' = "running"
             /\ ccall' = [kind |-> kind, timeout |-> timeout, start_time |-> now,
                          temp |-> temp]
             /\ proc' \in {"running", "hung"}
             /\ workdir' = [workdir EXCEPT !.files = files]

\* a call compile_lean_file(MainFile, project_root, timeout)
FileCall(timeout) ==
    /\ cpc = "idle"
    /\ now <= CompMaxTime
    /\ start_file("file", MainFile, FALSE, timeout)
    /\ UNCHANGED <<now, nextId>> /\ QuietCompile

\* a call compile_lean_content(content, file_name, project_root, None, timeout)
ContentCall(content, file_name, timeout) ==
    /\ cpc = "idle"
    /\ now <= CompMaxTime
    /\ nextId[Handler] < MaxCalls
    /\ LET temp == unique_name(uuid4(Handler, nextId[Handler]), ensure_lean(file_name))
           w == write_text(workdir, temp, content)
           files == IF w.created THEN workdir.files \cup {temp} ELSE workdir.files
       IN  /\ nextId' = [nextId EXCEPT ![Handler] = @ + 1]
           /\ IF w.error # NoError
              THEN /\ ret' = CompRet("content", exists_raises(temp), "write",
                                     write_failed(w.error), temp,
                                     files \ cleanup(files, temp))
                   /\ workdir' = [workdir EXCEPT !.files = cleanup(files, temp)]
                   /\ UNCHANGED <<cpc, ccall, proc>>
              ELSE start_file("content", temp, TRUE, timeout)
    /\ UNCHANGED now /\ QuietCompile

\* the running compiler writes the compiled sidecar next to the source
ChildWritesOlean ==
    /\ cpc = "running" /\ Alive
    /\ workdir.state = "ok"
    /\ olean_of(ccall.temp) \notin workdir.files
    /\ workdir' = [workdir EXCEPT !.files = @ \cup {olean_of(ccall.temp)}]
    /\ UNCHANGED <<now, ret, nextId, cpc, ccall, proc>> /\ QuietCompile

\* what both ways out of subprocess.run do with the outcome: compile_lean_file
\* returns it, and compile_lean_content runs its finally block before returning
finish(cause, out) ==
    /\ ret' = CompRet(ccall.kind, FALSE, cause, out, ccall.temp,
                      workdir.files \ left_files(ccall.kind, workdir.files, ccall.temp))
    /\ cpc' = "idle"
    /\ ccall' = NoCall
    /\ workdir' = [workdir EXCEPT !.files = left_files(ccall.kind, @, ccall.temp)]

\* the child exits by itself with return code rc and subprocess.run returns;
\* with timeout 0 the time left is negative at run's first look at the clock,
\* so it raises TimeoutExpired without looking at the child
ChildExit(rc) ==
    /\ cpc = "running" /\ proc = "running"
    /\ ccall.timeout > 0
    /\ proc' = "exited"
    /\ finish("exit", returned(rc, ccall.start_time, now))
    /\ UNCHANGED <<now, nextId>> /\ QuietCompile

TimeoutExpiredEarly ==
    /\ cpc = "running" /\ Alive
    /\ proc' = "killed"
    /\ finish("timeout", timed_out(ccall.start_time, now))
    /\ UNCHANGED <<now, nextId>> /\ QuietCompile

\* subprocess.run(timeout=timeout): once the timeout has passed with the child
\* still alive, run kills it, waits for it and raises TimeoutExpired
TimeoutExpired ==
    /\ cpc = "running" /\ Alive
    /\ now >= Deadline
    /\ proc' = "killed"
    /\ finish("timeout", timed_out(ccall.start_time, now))
    /\ UNCHANGED <<now, nextId>> /\ QuietCompile

NextCompile ==
    \/ CompTick
    \/ \E t \in Timeouts : FileCall(t)
    \/ \E c \in CompileContents, f \in TempNames, t \in Timeouts : ContentCall(c, f, t)
    \/ ChildWritesOlean
    \/ \E rc \in ExitCodes : ChildExit(rc)
    \/ TimeoutExpired

SpecCompile == InitCompile /\ [][NextCompile]_vars

\* subprocess.run polls the child and the clock: no step that can be taken is
\* put off forever
SpecCompileFair == InitCompile /\ [][NextCompile]_vars /\ WF_vars(NextCompile)

---------------------------------------------------------------------------
(* Claims about the compiler, checked under SpecCompile and SpecCompileFair *)

Populated(error) == error # NoError /\ error # ""

\* C18: compile_lean_file never raises: whatever the file, the working
\* directory and the binary, a call that came back (directly or on behalf of
\* compile_lean_content) returned a structured outcome; when the launch failed
\* (missing binary, binary that may not be executed, nonexistent working
\* directory) the outcome has return code -1, a populated error, timeout
\* false and success false
C18_CompileFileAlwaysReturnsOutcome ==
    ret.op \in {"file", "content"} /\ ret.cause \in {"launch", "exit", "timeout"} =>
        /\ ~ret.raised
        /\ ret.out.returncode \in ExitCodes \cup {-1}
        /\ ret.out.timeout \in BOOLEAN
        /\ ret.out.duration_ms >= 0
        /\ ret.cause = "launch" =>
              /\ ret.out.returncode = -1
              /\ Populated(ret.out.error)
              /\ ~ret.out.timeout
              /\ ~success(ret.out)

\* compile_lean_file against a working directory that does not exist returned
C18_Witness ==
    /\ ret.op = "file" /\ ret.cause = "launch"
    /\ workdir.state = "absent"
    /\ ~success(ret.out)

\* a step that kills the child is taken at or after start_time + timeout and
\* returns the timeout outcome, its duration measured from start_time
TimeoutKillsAndReturns ==
    [][Alive /\ proc' = "killed" =>
          /\ now >= Deadline
          /\ cpc' = "idle"
          /\ ~ret'.raised
          /\ ret'.out.timeout
          /\ ret'.out.returncode = -1
          /\ Populated(ret'.out.error)
          /\ ret'.out.duration_ms = duration_ms(ccall.start_time, now')
          /\ ret'.out.duration_ms >= ccall.timeout * 1000]_vars

\* a child that stops being alive either exited by itself, and then the
\* outcome is not a timeout, or was killed at or after the deadline
OnlyTimeoutCancels ==
    [][Alive /\ proc' \notin {"running", "hung"} =>
          \/ proc' = "exited" /\ ~ret'.out.timeout /\ ret'.out.returncode \in ExitCodes
          \/ proc' = "killed" /\ now >= Deadline]_vars

\* C19: when the compiler does not finish within the timeout,
\* compile_lean_file kills it and returns an outcome with timeout true,
\* return code -1, a populated timeout error and the duration from start_time;
\* a child that would never exit is eventually killed and every blocked call
\* eventually returns; nothing but the expired timeout kills a child
C19_TimeoutTerminatesAndReturns ==
    /\ TimeoutKillsAndReturns
    /\ OnlyTimeoutCancels
    /\ (proc = "hung") ~> (proc = "killed" /\ cpc = "idle")
    /\ (cpc = "running") ~> (cpc = "idle")

\* a call with a positive timeout came back with the timeout outcome
C19_Witness ==
    /\ ret.op \in {"file", "content"} /\ ret.cause = "timeout"
    /\ proc = "killed"
    /\ ret.out.timeout
    /\ ret.out.duration_ms >= 1000

\* C20: whenever no compile_lean_content call is in progress, no temporary
\* source file and no sidecar of one is left in the working directory,
\* whichever way the calls came back: compiled, compiler error, timeout,
\* launch failure, failed write (with or without a partly written file) or
\* an exception
C20_TempFilesRemoved ==
    cpc = "idle" =>
        /\ \A f \in workdir.files : f.hex = NoId
        /\ ret.op = "content" =>
              /\ ret.temp \notin workdir.files
              /\ olean_of(ret.temp) \notin workdir.files

\* a call that timed out removed both its source file and the sidecar
C20_Witness ==
    /\ cpc = "idle" /\ ret.op = "content" /\ ret.cause = "timeout"
    /\ ret.removed = {ret.temp, olean_of(ret.temp)}
    /\ Cardinality(ret.removed) = 2

\* the records of the files that parse, in the order query visits the files
RECURSIVE Loaded(_)
Loaded(files) ==
    IF files = <<>> THEN <<>>
    ELSE IF Head(files).text = Garbage THEN Loaded(Tail(files))
    ELSE <<json_value(Head(files).text)>> \o Loaded(Tail(files))

Visited == Loaded(attempt_files(ledger))

\* what each filter set of QueryFilters asks of a record, written out
HasBenchmark(r) == r.v.metadata.t = "dict" /\ "benchmark" \in DOMAIN r.v.metadata.v
Selects(filters, r) ==
    CASE filters = NoFilters -> TRUE
      [] filters = FilterBench ->
            /\ HasBenchmark(r)
            /\ r.v.metadata.v.benchmark.t = "str" /\ r.v.metadata.v.benchmark.v = "a"
      [] filters = FilterNested ->
            /\ HasBenchmark(r)
            /\ r.v.metadata.v.benchmark.t = "dict"
            /\ "name" \in DOMAIN r.v.metadata.v.benchmark.v
            /\ r.v.metadata.v.benchmark.v.name = PyStr("a")
      [] filters = FilterBoth ->
            /\ r.v.output.v.returncode = PyInt(1)
            /\ HasBenchmark(r)
            /\ r.v.metadata.v.benchmark.t = "str" /\ r.v.metadata.v.benchmark.v = "a"
      [] filters = FilterInvalid -> FALSE

\* the first n elements of a sequence
Take(seq, n) == IF n <= 0 THEN <<>> ELSE SubSeq(seq, 1, IF n < Len(seq) THEN n ELSE Len(seq))

RECURSIVE Selected(_, _)
Selected(filters, records) ==
    IF records = <<>> THEN <<>>
    ELSE IF Selects(filters, Head(records))
    THEN <<Head(records)>> \o Selected(filters, Tail(records))
    ELSE Selected(filters, Tail(records))

\* C13: query(filters, limit) returns exactly the first limit records, in
\* visit order, among the records every filter of which resolves, through
\* nested mappings, to the expected value; a missing segment or a value that
\* is not a mapping on the way means no match, no filter matches every
\* record, and never more than limit records come back (none for a limit
\* below one).
C13_QueryReturnsFirstMatches ==
    ret.op = "query"
        => /\ ret.value = Take(Selected(ret.filters, Visited), ret.limit)
           /\ Len(ret.value) <= (IF ret.limit < 0 THEN 0 ELSE ret.limit)

\* C13 witness: a query on a nested metadata field returned the one record
\* that has it, passing over a record whose value on the way is a string
C13_Witness ==
    /\ ret.op = "query" /\ ret.filters = FilterNested /\ Len(ret.value) = 1
    /\ \E i \in DOMAIN log : ~log[i].raised /\ log[i].call.metadata = MetaBench
    /\ Len(Visited) = MaxAppends

\* the instant a returned record says it was created at
created(r) == fromisoformat(r.v.timestamp.v)

\* C14: query returns the attempts newest first: of two returned records the
\* one listed first was created no earlier than the other, also for records
\* made within one second and for timestamps with no fraction of a second.
C14_QueryNewestFirst ==
    ret.op = "query"
        => \A i, j \in DOMAIN ret.value :
              i < j => created(ret.value[i]) >= created(ret.value[j])

\* C15: a file of the ledger that does not parse is passed over by get, query
\* and stats: it is never returned, it takes none of the limit of a query,
\* it is not counted as a success, and no read removes or rewrites any file.
CorruptIsSkipped ==
    (\E f \in ledger.files : f.text = Garbage)
        => /\ (ret.op = "query" /\ ret.filters = NoFilters)
                 => /\ Len(ret.value) = (IF ret.limit < Len(Visited)
                                         THEN (IF ret.limit < 0 THEN 0 ELSE ret.limit)
                                         ELSE Len(Visited))
                    /\ \A i \in DOMAIN ret.value : "attempt_id" \in DOMAIN ret.value[i].v
           /\ (ret.op = "get" /\ \E f \in ledger.files : f.name.id = ret.id /\ f.text = Garbage)
                 => ret.value = PyNone
           /\ ret.op = "stats"
                 => /\ ret.value.total_attempts = Cardinality(ledger.files)
                    /\ ret.value.successful_attempts =
                          Cardinality({i \in DOMAIN Visited :
                                          Visited[i].v.output.v.returncode = PyInt(0)})

C22_ZeroTimeoutAlwaysTimesOut ==
    [][/\ \A c \in CompileContents, f \in TempNames :
             ContentCall(c, f, 0) /\ cpc' = "idle"
             => (/\ ~ret'.raised
                 /\ ret'.out.timeout
                 /\ ret'.temp \notin workdir'.files)
       /\ (cpc = "running" /\ ccall.kind = "content" /\ ccall.timeout = 0 /\ cpc' = "idle")
             => (/\ ~ret'.raised
                 /\ ret'.out.timeout
                 /\ ret'.temp \notin workdir'.files)]_vars

---------------------------------------------------------------------------
(* SpecInvokers: compile_lean_content called concurrently in one working    *)
(* directory (the thread pool of api.py), each call's steps interleaved     *)

\* the calls run in NumInvokers threads
NumInvokers == 2
Invokers == 1 .. NumInvokers
\* the file names the concurrent calls are given
SharedNames == {<<"t">>, <<"t", ".", "lean">>, <<"a", "-", "b">>}

NoInvocation == [pc |-> "idle", temp |-> MainFile, olean |-> FALSE]

InitInvokers ==
    /\ now = 0
    /\ cpc = "idle" /\ ccall = NoCall /\ proc = "none"
    /\ workdir = [state |-> "ok", lean |-> "ok", files |-> {}]
    /\ inv = [i \in Invokers |-> NoInvocation]
    /\ nextId = [i \in Invokers |-> 0]
    /\ ret = NoRet
    /\ cacheDir = "absent" /\ cache = [k \in CacheKeys |-> Missing]
    /\ stored = [k \in CacheKeys |-> NoStore]
    /\ ledgerDir = "absent" /\ ledger = EmptyLedger
    /\ wpc = <<>> /\ wcur = <<>> /\ wdone = <<>> /\ log = <<>>
    /\ reqs = <<>> /\ maxConc = 0 /\ batch = "idle" /\ sem = 0
    /\ tpc = <<>> /\ tres = <<>> /\ compiles = <<>> /\ tloc = <<>> /\ tfail = <<>>
    /\ scan = <<>> /\ arg = <<>> /\ val = <<>>

QuietInvokers ==
    UNCHANGED <<now, cacheVars, ledgerDir, ledger, workerVars, log, batchVars,
                cpc, ccall, proc, scan, pureVars>>

\* compiler.py:201-209: the call draws its name, writes the source file
\* (write_text creates the file or overwrites the one of that name) and
\* launches the compiler
InvStart(i, file_name) ==
    /\ inv[i].pc = "idle"
    /\ nextId[i] < MaxCalls
    /\ LET temp == unique_name(uuid4(i, nextId[i]), ensure_lean(file_name))
       IN  /\ inv' = [inv EXCEPT ![i] = [pc |-> "compiling", temp |-> temp, olean |-> FALSE]]
           /\ workdir' = [workdir EXCEPT !.files = @ \cup {temp}]
    /\ nextId' = [nextId EXCEPT ![i] = @ + 1]
    /\ QuietInvokers

\* the compiler of call i writes the sidecar of its source file
InvOlean(i) ==
    /\ inv[i].pc = "compiling" /\ ~inv[i].olean
    /\ inv' = [inv EXCEPT ![i].olean = TRUE]
    /\ workdir' = [workdir EXCEPT !.files = @ \cup {olean_of(inv[i].temp)}]
    /\ UNCHANGED nextId /\ QuietInvokers

\* compiler.py:209-234: the compiler came back (whatever the outcome) and the
\* finally block of call i removes its two files
InvFinish(i) ==
    /\ inv[i].pc = "compiling"
    /\ inv' = [inv EXCEPT ![i] = NoInvocation]
    /\ workdir' = [workdir EXCEPT !.files = cleanup(@, inv[i].temp)]
    /\ UNCHANGED nextId /\ QuietInvokers

NextInvokers ==
    \/ \E i \in Invokers, f \in SharedNames : InvStart(i, f)
    \/ \E i \in Invokers : InvOlean(i)
    \/ \E i \in Invokers : InvFinish(i)

SpecInvokers == InitInvokers /\ [][NextInvokers]_vars

\* the two paths of a call
PathsOf(i) == {inv[i].temp, olean_of(inv[i].temp)}

\* C21: concurrent compile_lean_content calls in one working directory, with
\* the same file name or not, have pairwise distinct temporary paths; no call
\* writes over a file of another call (the path it writes did not exist), and
\* while a call is compiling its source file, and its sidecar once written,
\* are in the working directory whatever the other calls' cleanups removed
C21_ConcurrentCallsUseDistinctPaths ==
    /\ [](\A i \in Invokers :
            /\ \A j \in Invokers \ {i} :
                  inv[i].pc = "compiling" /\ inv[j].pc = "compiling"
                  => PathsOf(i) \cap PathsOf(j) = {}
            /\ inv[i].pc = "compiling"
               => /\ inv[i].temp \in workdir.files
                  /\ inv[i].olean => olean_of(inv[i].temp) \in workdir.files)
    /\ [][\A i \in Invokers :
            inv[i].pc = "idle" /\ inv'[i].pc = "compiling"
            => inv'[i].temp \notin workdir.files]_vars

\* two calls with the same file name are compiling at once, one with its
\* sidecar written, after an earlier call has cleaned up
C21_Witness ==
    /\ inv[1].pc = "compiling" /\ inv[2].pc = "compiling"
    /\ inv[1].temp.rest = inv[2].temp.rest
    /\ inv[1].olean
    /\ nextId[2] > 1

---------------------------------------------------------------------------
(* SpecEvict: cleanup_expired_cache() on a cache directory of any content,  *)
(* nothing else running                                                     *)

\* what the scan may find under a key: nothing, an entry with no expiry or
\* with an expiry from 0 to MaxTime, a file that is not JSON, a directory
EvictFiles ==
    {Missing, Corrupt, DirRecord, File("entry", result_dict(OutSuccess), FALSE, 0)}
        \cup {File("entry", result_dict(OutSuccess), TRUE, x) : x \in 0 .. MaxTime}

InitEvict ==
    /\ now = 0
    /\ cacheDir \in {"ok", "readonly"}
    /\ cache \in [CacheKeys -> EvictFiles]
    /\ ret = Ret("none", <<>>, FALSE, FALSE, NoResult)
    /\ stored = [k \in CacheKeys |-> NoStore]
    /\ ledgerDir = "absent" /\ ledger = EmptyLedger /\ nextId = <<>>
    /\ wpc = <<>> /\ wcur = <<>> /\ wdone = <<>> /\ log = <<>>
    /\ reqs = <<>> /\ maxConc = 0 /\ batch = "idle" /\ sem = 0
    /\ tpc = <<>> /\ tres = <<>> /\ compiles = <<>> /\ tloc = <<>> /\ tfail = <<>>
    /\ NoCompilerCall

NextEvict == Tick \/ Cleanup

SpecEvict == InitEvict /\ [][NextEvict]_vars

\* C27: cleanup_expired_cache() at time now on a cache directory that can be
\* written, with nothing else running, leaves no entry whose expiry is earlier
\* than now, and leaves every readable entry with no expiry, or with an expiry
\* not earlier than now, in place with its content
C27_EvictRemovesExactlyStale ==
    [][(Cleanup /\ cacheDir = "ok")
        => /\ \A k \in CacheKeys :
                 (cache'[k].kind = "entry" /\ cache'[k].has_expiry)
                    => cache'[k].expires_at >= now
           /\ \A k \in CacheKeys :
                 (cache[k].kind = "entry"
                    /\ (~cache[k].has_expiry \/ cache[k].expires_at >= now))
                    => cache'[k] = cache[k]]_vars

---------------------------------------------------------------------------
(* SpecScans: cleanup_expired_cache, clear_cache, get_cache_stats and       *)
(* get_cached_result running concurrently on one cache directory (the       *)
(* thread pool of api.py), each scan interleaved entry by entry             *)

\* the threads, each running one operation
Scanners == {"s1", "s2"}

\* the scans start at time ScanTime; an entry is fresh or expired by then
ScanTime == 1
FreshEntry == File("entry", result_dict(OutSuccess), FALSE, 0)
ExpiredEntry == File("entry", result_dict(OutSuccess), TRUE, 0)
ScanFiles == {Missing, FreshEntry, ExpiredEntry, Corrupt}

\* a thread's operation: op, where it is, the files listed and not yet
\* visited, its counters, the files it removed itself, and whether it raised
ScanState(op, pc, todo, count, removed, total, expired, raised) ==
    [op |-> op, pc |-> pc, todo |-> todo, count |-> count, removed |-> removed,
     total |-> total, expired |-> expired, raised |-> raised]
NoScan == ScanState("none", "idle", <<>>, 0, 0, 0, 0, FALSE)

InitScans ==
    /\ now = ScanTime
    /\ cacheDir = "ok"
    /\ cache \in [CacheKeys -> ScanFiles]
    /\ ret = Ret("none", <<>>, FALSE, FALSE, NoResult)
    /\ stored = [k \in CacheKeys |-> NoStore]
    /\ ledgerDir = "absent" /\ ledger = EmptyLedger /\ nextId = <<>>
    /\ wpc = <<>> /\ wcur = <<>> /\ wdone = <<>> /\ log = <<>>
    /\ reqs = <<>> /\ maxConc = 0 /\ batch = "idle" /\ sem = 0
    /\ tpc = <<>> /\ tres = <<>> /\ compiles = <<>> /\ tloc = <<>> /\ tfail = <<>>
    /\ cpc = "idle" /\ ccall = NoCall /\ proc = "none"
    /\ workdir = [state |-> "ok", lean |-> "ok", files |-> {}]
    /\ inv = <<>> /\ arg = <<>> /\ val = <<>>
    /\ scan = [p \in Scanners |-> NoScan]

QuietScans ==
    UNCHANGED <<now, cacheDir, ret, stored, ledgerVars, workerVars, log, batchVars,
                compVars, inv, pureVars>>

\* the file of an entry is past its expiry at the time of the scan
is_expired(f) == f.kind = "entry" /\ f.has_expiry /\ now > f.expires_at

\* cache.py:134, 163, 203: glob("*.json") lists the directory, in any order
ScanStart(p, op, order) ==
    /\ scan[p].pc = "idle"
    /\ scan' = [scan EXCEPT ![p] =
          ScanState(op, IF order = <<>> THEN "done" ELSE "scanning", order, 0, 0, 0, 0, FALSE)]
    /\ UNCHANGED cache /\ QuietScans

\* the state of a scan after the file at the head of its list
AfterFile(sc, count, removed, total, expired) ==
    ScanState(sc.op, IF Tail(sc.todo) = <<>> THEN "done" ELSE "scanning", Tail(sc.todo),
              sc.count + count, sc.removed + removed, sc.total + total,
              sc.expired + expired, FALSE)

\* cache.py:164-175: one file of cleanup_expired_cache. A file that is gone
\* makes open() raise: the handler's unlink(missing_ok=True) does nothing and
\* the file is counted
EvictStep(p) ==
    /\ scan[p].op = "evict" /\ scan[p].pc = "scanning"
    /\ LET k == Head(scan[p].todo)
           f == cache[k]
       IN  IF f.kind = "missing"
           THEN /\ scan' = [scan EXCEPT ![p] = AfterFile(@, 1, 0, 0, 0)]
                /\ UNCHANGED cache
           ELSE IF f.kind = "corrupt" \/ is_expired(f)
           THEN /\ scan' = [scan EXCEPT ![p] = AfterFile(@, 1, 1, 0, 0)]
                /\ cache' = [cache EXCEPT ![k] = Missing]
           ELSE /\ scan' = [scan EXCEPT ![p] = AfterFile(@, 0, 0, 0, 0)]
                /\ UNCHANGED cache
    /\ QuietScans

\* cache.py:135-140: one file of clear_cache; an unlink that fails is skipped
ClearStep(p) ==
    /\ scan[p].op = "clear" /\ scan[p].pc = "scanning"
    /\ LET k == Head(scan[p].todo)
       IN  IF cache[k].kind = "missing"
           THEN /\ scan' = [scan EXCEPT ![p] = AfterFile(@, 0, 0, 0, 0)]
                /\ UNCHANGED cache
           ELSE /\ scan' = [scan EXCEPT ![p] = AfterFile(@, 1, 1, 0, 0)]
                /\ cache' = [cache EXCEPT ![k] = Missing]
    /\ QuietScans

\* cache.py:204-216: one file of get_cache_stats; stat() of a file that is
\* gone raises outside the try
StatsStep(p) ==
    /\ scan[p].op = "stats" /\ scan[p].pc = "scanning"
    /\ LET f == cache[Head(scan[p].todo)]
       IN  scan' = [scan EXCEPT ![p] =
              IF f.kind = "missing"
              THEN ScanState(@.op, "done", Tail(@.todo), 0, 0, @.total + 1, @.expired, TRUE)
              ELSE AfterFile(@, 0, 0, 1, IF f.kind = "corrupt" \/ is_expired(f) THEN 1 ELSE 0)]
    /\ UNCHANGED cache /\ QuietScans

\* get_cached_result(k): an expired or unreadable file is unlinked
LookupStep(p, k) ==
    /\ scan[p].pc = "idle"
    /\ LET g == get_cached_result(cache[k], cacheDir, now)
       IN  /\ cache' = [cache EXCEPT ![k] = g.file]
           /\ scan' = [scan EXCEPT ![p] =
                 ScanState("lookup", "done", <<>>, 0,
                           IF g.file # cache[k] THEN 1 ELSE 0, 0, 0, g.raised)]
    /\ QuietScans

NextScans ==
    \/ \E p \in Scanners, op \in {"evict", "clear", "stats"}, order \in Orders(Listed(cache)) :
          ScanStart(p, op, order)
    \/ \E p \in Scanners : EvictStep(p)
    \/ \E p \in Scanners : ClearStep(p)
    \/ \E p \in Scanners : StatsStep(p)
    \/ \E p \in Scanners, k \in CacheKeys : LookupStep(p, k)

SpecScans == InitScans /\ [][NextScans]_vars

\* the sum of f over the threads in S
RECURSIVE SumOver(_, _)
SumOver(S, f) ==
    IF S = {} THEN 0
    ELSE LET p == CHOOSE p \in S : TRUE IN f[p] + SumOver(S \ {p}, f)

\* the entries that existed: the ones there now and the ones removed (no
\* operation of SpecScans creates one)
Existed == Cardinality(Listed(cache)) + SumOver(Scanners, [p \in Scanners |-> scan[p].removed])

\* C28: the count a cleanup_expired_cache() call returns is the number of
\* entries this call removed, whatever runs next to it, and the counts of the
\* calls together are at most the number of entries that existed
C28_EvictCountsOwnRemovals ==
    /\ \A p \in Scanners :
          (scan[p].op = "evict" /\ scan[p].pc = "done") => scan[p].count = scan[p].removed
    /\ SumOver({p \in Scanners : scan[p].op = "evict" /\ scan[p].pc = "done"},
               [p \in Scanners |-> scan[p].count]) <= Existed

\* C29: get_cache_stats() always returns a result, whatever is removed next to
\* it, and in its result expired_entries <= total_entries
C29_StatsAlwaysReturns ==
    \A p \in Scanners :
        (scan[p].op = "stats" /\ scan[p].pc = "done")
            => (~scan[p].raised /\ scan[p].expired <= scan[p].total)

---------------------------------------------------------------------------
(* SpecOutcome: CompilerOutput objects of every shape and their success     *)

\* the return codes run from MinRc (no exit code: timeout, launch failure)
\* to MaxRc, the durations from 0 to MaxDuration
MinRc == -1
MaxRc == 1
MaxDuration == 2
\* error is None, an empty text or a description
Errors == {NoError, "", "boom"}

\* the dataclass's fields (stdout and stderr are opaque text and left out)
Outputs ==
    [returncode : MinRc .. MaxRc, timeout : BOOLEAN, error : Errors,
     duration_ms : 0 .. MaxDuration]

\* nothing but the pure function's argument and value is in use
IdleProgram ==
    /\ now = 0
    /\ cpc = "idle" /\ ccall = NoCall /\ proc = "none"
    /\ workdir = [state |-> "ok", lean |-> "ok", files |-> {}]
    /\ inv = <<>> /\ scan = <<>>
    /\ nextId = <<>>
    /\ ret = NoRet
    /\ cacheDir = "absent" /\ cache = [k \in CacheKeys |-> Missing]
    /\ stored = [k \in CacheKeys |-> NoStore]
    /\ ledgerDir = "absent" /\ ledger = EmptyLedger
    /\ wpc = <<>> /\ wcur = <<>> /\ wdone = <<>> /\ log = <<>>
    /\ reqs = <<>> /\ maxConc = 0 /\ batch = "idle" /\ sem = 0
    /\ tpc = <<>> /\ tres = <<>> /\ compiles = <<>> /\ tloc = <<>> /\ tfail = <<>>

QuietPure ==
    UNCHANGED <<now, cacheVars, ledgerVars, workerVars, log, batchVars, compVars, concVars>>

NotRead == [done |-> FALSE, success |-> FALSE]

InitOutcome == IdleProgram /\ arg \in Outputs /\ val = NotRead

\* CompilerOutput(...): another object is constructed
Construct(o) ==
    /\ val.done
    /\ arg' = o /\ val' = NotRead
    /\ QuietPure

\* the object's success property is read
ReadSuccess ==
    /\ ~val.done
    /\ val' = [done |-> TRUE, success |-> success(arg)]
    /\ UNCHANGED arg /\ QuietPure

NextOutcome ==
    \/ \E o \in Outputs : Construct(o)
    \/ ReadSuccess

SpecOutcome == InitOutcome /\ [][NextOutcome]_vars

\* C23: the success read off a CompilerOutput is true exactly when the return
\* code is zero, the timed-out flag is false and no error description is set
\* (error is None or the empty text)
C23_SuccessIsTriple ==
    val.done =>
        (val.success <=> (/\ arg.returncode = 0
                          /\ arg.timeout = FALSE
                          /\ arg.error \in {NoError, ""}))

\* a successful object, and one that exited with 0 after its time was up
C23_Witness ==
    /\ val.done
    /\ \/ val.success /\ arg.duration_ms > 0
       \/ ~val.success /\ arg.returncode = 0 /\ arg.timeout /\ arg.error = NoError

---------------------------------------------------------------------------
(* SpecHash: compute_content_hash on two argument sequences                 *)

\* an argument sequence has at most MaxArgs arguments
MaxArgs == 2

\* the arguments: texts, an integer and None with the texts of their str(),
\* lists in two orders, dicts in two key orders, alone, nested and in a list
DictXY == VDict(<< <<"x", VInt(1)>>, <<"y", VStr(<<"a">>)>> >>)
DictYX == VDict(<< <<"y", VStr(<<"a">>)>>, <<"x", VInt(1)>> >>)
HashValues ==
    {VStr(<<"a">>), VStr(<<"1">>), VInt(1), VNone, VStr(<<"N", "o", "n", "e">>),
     VList(<<>>), VList(<<VStr(<<"a">>), VInt(1)>>), VList(<<VInt(1), VStr(<<"a">>)>>),
     DictXY, DictYX,
     VDict(<< <<"p", DictXY>>, <<"q", VBool(TRUE)>> >>),
     VDict(<< <<"q", VBool(TRUE)>>, <<"p", DictYX>> >>),
     VList(<<DictXY>>), VList(<<DictYX>>)}

ArgSeqs == UNION {[1 .. n -> HashValues] : n \in 0 .. MaxArgs}

\* a with its argument i replaced by v
Replaced(a, i, v) == [a EXCEPT ![i] = v]
\* a with its arguments i and j exchanged
Exchanged(a, i, j) == [a EXCEPT ![i] = a[j], ![j] = a[i]]

\* the sequences compared with a: a itself, a with one argument replaced, a
\* with two arguments exchanged
Related(a) ==
    {a} \cup {Replaced(a, i, v) : i \in DOMAIN a, v \in HashValues}
        \cup {Exchanged(a, i, j) : i \in DOMAIN a, j \in DOMAIN a}

\* the compile requests whose keys are compared
HashRequests ==
    [content : Contents, file_name : FileNames, project_root : {ProjectRoot, <<"/q">>},
     dependencies : {VNone, VList(<<>>), VList(<<VStr(<<"d">>)>>)},
     timeout : {6, DefaultTimeout}]

NoKeys == [done |-> FALSE, ka |-> <<>>, kb |-> <<>>]

InitHash ==
    /\ IdleProgram
    /\ \/ \E a \in ArgSeqs : \E b \in Related(a) : arg = [kind |-> "args", a |-> a, b |-> b]
       \/ \E ra \in HashRequests, rb \in HashRequests :
             arg = [kind |-> "requests", a |-> ra, b |-> rb]
    /\ val = NoKeys

\* compute_content_hash(*a) and compute_content_hash(*b)
HashArgs ==
    /\ arg.kind = "args" /\ ~val.done
    /\ val' = [done |-> TRUE, ka |-> compute_content_hash(arg.a),
               kb |-> compute_content_hash(arg.b)]
    /\ UNCHANGED arg /\ QuietPure

\* the key part of cache_compilation_result for the requests a and b
HashRequestPair ==
    /\ arg.kind = "requests" /\ ~val.done
    /\ val' = [done |-> TRUE, ka |-> compute_content_hash(request_args(arg.a)),
               kb |-> compute_content_hash(request_args(arg.b))]
    /\ UNCHANGED arg /\ QuietPure

NextHash == HashArgs \/ HashRequestPair

SpecHash == InitHash /\ [][NextHash]_vars

\* the arguments at which two sequences of one length differ
DifferAt(a, b) == {i \in DOMAIN a : a[i] # b[i]}

\* what a request asks for: no dependencies given is the empty list
Asked(r) == [r EXCEPT !.dependencies = IF @ = VNone THEN VList(<<>>) ELSE @]

\* C25: two argument sequences that differ in one argument never have the
\* same digest input, and two compile requests that differ in content, file
\* name, project root, dependencies or timeout never have the same cache key
C25_DifferentArgumentsDifferentKeys ==
    val.done =>
        /\ (arg.kind = "args" /\ Len(arg.a) = Len(arg.b)
               /\ Cardinality(DifferAt(arg.a, arg.b)) = 1)
              => val.ka # val.kb
        /\ (arg.kind = "requests" /\ Asked(arg.a) # Asked(arg.b))
              => val.ka # val.kb

\* x and y are the same value up to the order of the keys of the dicts in them
RECURSIVE SameUpToKeyOrder(_, _)
SameUpToKeyOrder(x, y) ==
    /\ x.t = y.t
    /\ CASE x.t = "list" ->
              /\ Len(x.v) = Len(y.v)
              /\ \A i \in DOMAIN x.v : SameUpToKeyOrder(x.v[i], y.v[i])
         [] x.t = "dict" ->
              /\ {x.v[i][1] : i \in DOMAIN x.v} = {y.v[j][1] : j \in DOMAIN y.v}
              /\ \A i \in DOMAIN x.v, j \in DOMAIN y.v :
                    x.v[i][1] = y.v[j][1] => SameUpToKeyOrder(x.v[i][2], y.v[j][2])
         [] OTHER -> x = y

\* C26: equal argument sequences have equal keys, and so have two sequences
\* whose arguments are, position by position, the same values up to the order
\* of the keys of the dicts in them, at any depth
C26_KeyOrderInsensitive ==
    (val.done /\ arg.kind = "args" /\ Len(arg.a) = Len(arg.b)
        /\ \A i \in DOMAIN arg.a : SameUpToKeyOrder(arg.a[i], arg.b[i]))
    => val.ka = val.kb

\* a dict with a dict in it, the keys of both in another order: the same key
C26_Witness ==
    /\ val.done /\ arg.kind = "args" /\ Len(arg.a) = 2 /\ arg.a # arg.b
    /\ arg.a[2] = VDict(<< <<"p", DictXY>>, <<"q", VBool(TRUE)>> >>)
    /\ arg.b[2] = VDict(<< <<"q", VBool(TRUE)>>, <<"p", DictYX>> >>)
    /\ val.ka = val.kb

\* the order of a list's elements and of the arguments is part of the key
OrderOfListsAndArgumentsMatters ==
    /\ val.done /\ arg.kind = "args" /\ val.ka # val.kb
    /\ \/ /\ Len(arg.a) = 1 /\ Len(arg.b) = 1
          /\ arg.a[1] = VList(<<VStr(<<"a">>), VInt(1)>>)
          /\ arg.b[1] = VList(<<VInt(1), VStr(<<"a">>)>>)
       \/ /\ Len(arg.a) = 2 /\ arg.b = Exchanged(arg.a, 1, 2)

---------------------------------------------------------------------------
(* SpecDiag: parse_lean_diagnostics on the compiler's stderr text           *)

\* the text has at most MaxLines lines
MaxLines == 2

\* the characters of the text; "error", "warning", "info" and "Error" stand
\* for the letters of these words, "f" and "m" for any other character
Whitespace == {" ", "\r"}
DigitChars == {"0", "1", "5"}
Severities == {"error", "warning", "info"}
DiagChars == {"f", "m", ":", "Error"} \cup Whitespace \cup DigitChars \cup Severities

\* the lines the compiler may print
DiagLines ==
    {<<"f", ":", "5", ":", "1", "0", ":", " ", "error", ":", " ", "m">>,
     <<" ", " ", "f", ":", "0", "5", ":", "1", ":", "warning", ":", "m", "\r">>,
     <<"f", ":", "1", ":", "1", ":", " ", "info", ":", " ", "m", ":", " ", "m", " ", "m">>,
     <<"f", " ", "f", ":", "1", ":", "1", ":", " ", " ", "info", ":", "m">>,
     <<"m", "m", " ", "m">>,
     <<>>,
     <<"f", ":", "1", ":", "1", ":", " ", "error", ":">>,
     <<"f", ":", "1", ":", "1", ":", " ", "Error", ":", " ", "m">>,
     <<":", "1", ":", "1", ":", " ", "error", ":", " ", "m">>,
     <<"f", ":", "m", ":", "1", ":", " ", "error", ":", " ", "m">>,
     <<"f", ":", "f", ":", "1", ":", "1", ":", " ", "error", ":", " ", "m">>,
     <<"f", ":", "1", ":", "1", ":", " ", "info", " ", ":", " ", "m">>}

\* the texts: the lines, each but the last followed by a line feed
Stderrs == UNION {[1 .. n -> DiagLines] : n \in 0 .. MaxLines}
RECURSIVE stderr_text(_)
stderr_text(lines) ==
    IF lines = <<>> THEN <<>>
    ELSE IF Len(lines) = 1 THEN lines[1]
    ELSE lines[1] \o <<"\n">> \o stderr_text(Tail(lines))

\* stderr.split("\n")
RECURSIVE split_lines(_, _)
split_lines(text, line) ==
    IF text = <<>> THEN <<line>>
    ELSE IF Head(text) = "\n" THEN <<line>> \o split_lines(Tail(text), <<>>)
    ELSE split_lines(Tail(text), Append(line, Head(text)))

\* str.strip()
RECURSIVE lstrip(_)
lstrip(s) == IF s # <<>> /\ Head(s) \in Whitespace THEN lstrip(Tail(s)) ELSE s
RECURSIVE rstrip(_)
rstrip(s) ==
    IF s # <<>> /\ s[Len(s)] \in Whitespace THEN rstrip(SubSeq(s, 1, Len(s) - 1)) ELSE s
strip(s) == rstrip(lstrip(s))

\* int(digits)
RECURSIVE int(_)
int(digits) ==
    IF digits = <<>> THEN 0
    ELSE 10 * int(SubSeq(digits, 1, Len(digits) - 1))
         + (CHOOSE d \in 0 .. 9 : DecimalDigits[d + 1] = digits[Len(digits)])

\* where the run of characters of S that starts at i ends (the index after it)
RECURSIVE run_end(_, _, _)
run_end(s, i, S) == IF i <= Len(s) /\ s[i] \in S THEN run_end(s, i + 1, S) ELSE i

\* re.match(r"([^:]+):(\d+):(\d+):\s*(error|warning|info):\s*(.+)", line):
\* the groups, or no match
re_match(line) ==
    LET i1 == run_end(line, 1, DiagChars \ {":"})
        i2 == run_end(line, i1 + 1, DigitChars)
        i3 == run_end(line, i2 + 1, DigitChars)
        i4 == run_end(line, i3 + 1, Whitespace)
        i5 == i4 + 1
        i6 == run_end(line, i5 + 1, Whitespace)
    IN  IF /\ i1 > 1 /\ i1 <= Len(line) /\ line[i1] = ":"
           /\ i2 > i1 + 1 /\ i2 <= Len(line) /\ line[i2] = ":"
           /\ i3 > i2 + 1 /\ i3 <= Len(line) /\ line[i3] = ":"
           /\ i4 <= Len(line) /\ line[i4] \in Severities
           /\ i5 <= Len(line) /\ line[i5] = ":"
           /\ i5 < Len(line)
        THEN [matched |-> TRUE,
              file |-> SubSeq(line, 1, i1 - 1),
              line_num |-> SubSeq(line, i1 + 1, i2 - 1),
              col_num |-> SubSeq(line, i2 + 1, i3 - 1),
              level |-> line[i4],
              \* \s* gives back its last character when nothing else is left
              message |-> SubSeq(line, IF i6 > Len(line) THEN Len(line) ELSE i6, Len(line))]
        ELSE [matched |-> FALSE]

\* the dict appended for a match
diagnostic(m) ==
    [file |-> m.file, line |-> int(m.line_num), column |-> int(m.col_num),
     level |-> m.level, message |-> strip(m.message)]

RECURSIVE diagnostics_loopNewestFirst(_, _)
diagnostics_loopNewestFirst(lines, diagnostics) ==
    IF lines = <<>> THEN diagnostics
    ELSE LET line == strip(Head(lines))
             m == re_match(line)
         IN  IF line = <<>> \/ ~m.matched
             THEN diagnostics_loopNewestFirst(Tail(lines), diagnostics)
             ELSE diagnostics_loopNewestFirst(Tail(lines), <<diagnostic(m)>> \o diagnostics)

\* compiler.py:82-96: the loop over the lines
RECURSIVE diagnostics_loop(_, _)
diagnostics_loop(lines, diagnostics) ==
    IF lines = <<>> THEN diagnostics
    ELSE LET line == strip(Head(lines))
             m == re_match(line)
         IN  IF line = <<>> \/ ~m.matched
             THEN diagnostics_loop(Tail(lines), diagnostics)
             ELSE diagnostics_loop(Tail(lines), Append(diagnostics, diagnostic(m)))

parse_lean_diagnostics(stderr) == diagnostics_loop(split_lines(stderr, <<>>), <<>>)

NotParsed == [done |-> FALSE, diagnostics |-> <<>>]

InitDiag == IdleProgram /\ arg \in Stderrs /\ val = NotParsed

\* parse_lean_diagnostics(stderr)
ParseDiagnostics ==
    /\ ~val.done
    /\ val' = [done |-> TRUE, diagnostics |-> parse_lean_diagnostics(stderr_text(arg))]
    /\ UNCHANGED arg /\ QuietPure

NextDiag == ParseDiagnostics

SpecDiag == InitDiag /\ [][NextDiag]_vars

\* a line without the white space around it
Trimmed(l) ==
    LET inked == {i \in DOMAIN l : l[i] \notin Whitespace}
    IN  IF inked = {} THEN <<>>
        ELSE SubSeq(l, CHOOSE i \in inked : \A j \in inked : i <= j,
                       CHOOSE i \in inked : \A j \in inked : i >= j)

\* the number a text of digits denotes
RECURSIVE NumberOf(_)
NumberOf(ds) ==
    IF ds = <<>> THEN 0
    ELSE (CHOOSE d \in 0 .. 9 : str_int(d) = <<Head(ds)>>) * 10 ^ (Len(ds) - 1)
         + NumberOf(Tail(ds))

\* the ways to read l as <file>:<line>:<column>: <severity>: <message>: the
\* places of the four colons. The file is a non-empty text with no colon, line
\* and column are non-empty texts of digits, white space may come before the
\* severity, the message is not empty
Readings(l) ==
    {q \in (DOMAIN l) \X (DOMAIN l) \X (DOMAIN l) \X (DOMAIN l) :
        /\ 1 < q[1] /\ q[1] + 1 < q[2] /\ q[2] + 1 < q[3] /\ q[3] + 1 < q[4] /\ q[4] < Len(l)
        /\ \A i \in 1 .. 4 : l[q[i]] = ":"
        /\ \A i \in 1 .. (q[1] - 1) : l[i] # ":"
        /\ \A i \in (q[1] + 1) .. (q[2] - 1) : l[i] \in DigitChars
        /\ \A i \in (q[2] + 1) .. (q[3] - 1) : l[i] \in DigitChars
        /\ \A i \in (q[3] + 1) .. (q[4] - 2) : l[i] \in Whitespace
        /\ l[q[4] - 1] \in Severities}

\* the diagnostic of a line that has a reading
DiagnosticOf(l) ==
    LET q == CHOOSE q \in Readings(l) : TRUE
    IN  [file |-> SubSeq(l, 1, q[1] - 1),
         line |-> NumberOf(SubSeq(l, q[1] + 1, q[2] - 1)),
         column |-> NumberOf(SubSeq(l, q[2] + 1, q[3] - 1)),
         level |-> l[q[4] - 1],
         message |-> Trimmed(SubSeq(l, q[4] + 1, Len(l)))]

\* the lines of the text that have a reading, in their order
MatchingLines(lines) == SelectSeq([i \in DOMAIN lines |-> Trimmed(lines[i])],
                                  LAMBDA l : Readings(l) # {})

\* C30: parse_lean_diagnostics returns, for the lines of the text that read as
\* <file>:<line>:<column>: <severity>: <message> with severity error, warning
\* or info, one diagnostic each, in the order of the lines, with line and
\* column as integers; the other lines add nothing
C30_DiagnosticsAreMatchingLines ==
    val.done =>
        LET expected == MatchingLines(arg)
        IN  /\ Len(val.diagnostics) = Len(expected)
            /\ \A i \in DOMAIN expected :
                  /\ val.diagnostics[i] = DiagnosticOf(expected[i])
                  /\ val.diagnostics[i].line \in Nat
                  /\ val.diagnostics[i].column \in Nat

\* the text "f:5:10: error: m", a line feed, "  f:05:1:warning:m" and a
\* carriage return gave two diagnostics, of lines 5 and 5, columns 10 and 1
C30_Witness ==
    /\ val.done /\ Len(arg) = 2
    /\ arg[1] = <<"f", ":", "5", ":", "1", "0", ":", " ", "error", ":", " ", "m">>
    /\ arg[2] = <<" ", " ", "f", ":", "0", "5", ":", "1", ":", "warning", ":", "m", "\r">>
    /\ Len(val.diagnostics) = 2
    /\ val.diagnostics[1].level = "error" /\ val.diagnostics[1].column = 10
    /\ val.diagnostics[2].level = "warning" /\ val.diagnostics[2].line = 5

---------------------------------------------------------------------------
(* SpecProject: setup_lean_project and validate_lean_project (project.py)   *)
(* on one project path                                                      *)

\* the project holds at most MaxLeanFiles files named *.lean
MaxLeanFiles == 2

\* what is at the project path: nothing ("absent", with a parent in which it
\* can be made or, "blocked", cannot), a file, or a directory ("dir") that can
\* be written or not, with or without leanpkg.toml ("none", or what it
\* holds), leanpkg.path, something named src ("none", "dir", "file") and a
\* number of *.lean files anywhere below it
ProjectDir(kind, writable, toml, path_file, src, lean_files) ==
    [kind |-> kind, writable |-> writable, toml |-> toml, path_file |-> path_file,
     src |-> src, lean_files |-> lean_files]
NoProject(kind) == ProjectDir(kind, TRUE, "none", FALSE, "none", 0)
ProjectDirs ==
    {NoProject("absent"), NoProject("blocked"), NoProject("file")}
        \cup {ProjectDir("dir", w, t, pf, sr, n) :
                w \in BOOLEAN, t \in {"none", "other"}, pf \in BOOLEAN,
                sr \in {"none", "dir", "file"}, n \in 0 .. MaxLeanFiles}

\* project.py:29-55: the directory afterwards and the value returned; the
\* steps before the one that raises have happened
setup_lean_project(d, mathlib) ==
    \* line 30: mkdir(parents=True, exist_ok=True)
    IF d.kind \in {"blocked", "file"} THEN [ok |-> FALSE, dir |-> d]
    ELSE LET made == IF d.kind = "absent" THEN NoProject("dir") ELSE d
             \* lines 33-46
             written == [made EXCEPT !.toml = IF mathlib THEN "mathlib" ELSE "basic"]
         IN  IF made.toml = "none" /\ ~made.writable THEN [ok |-> FALSE, dir |-> made]
             ELSE LET with_toml == IF made.toml = "none" THEN written ELSE made
                  \* lines 49-50: src_path.mkdir(exist_ok=True)
                  IN  IF with_toml.src = "dir" THEN [ok |-> TRUE, dir |-> with_toml]
                      ELSE IF with_toml.src = "file" \/ ~with_toml.writable
                      THEN [ok |-> FALSE, dir |-> with_toml]
                      ELSE [ok |-> TRUE, dir |-> [with_toml EXCEPT !.src = "dir"]]

\* find_lean_files(project_path): the paths that match **/*.lean
find_lean_files(d) == IF d.kind = "dir" THEN d.lean_files ELSE 0

\* project.py:192-235
validate_lean_project(d) ==
    LET has_toml == d.kind = "dir" /\ d.toml # "none"
        has_src == d.kind = "dir" /\ d.src = "dir"
        errors == (IF d.kind \in {"absent", "blocked"} THEN {"Project directory does not exist"}
                   ELSE IF d.kind = "file" THEN {"Project path is not a directory"}
                   ELSE (IF ~has_toml /\ ~d.path_file
                         THEN {"No leanpkg.toml or leanpkg.path found"} ELSE {})
                        \cup (IF ~has_src THEN {"No src/ directory found"} ELSE {}))
    IN  [valid |-> /\ d.kind = "dir"
                   /\ (has_toml \/ has_src)
                   /\ find_lean_files(d) > 0
                   /\ errors = {},
         has_leanpkg_toml |-> has_toml, has_src_dir |-> has_src,
         lean_files_count |-> IF d.kind = "dir" THEN find_lean_files(d) ELSE 0,
         errors |-> errors]

NoProjectCall == [op |-> "none"]

InitProject == IdleProgram /\ arg \in ProjectDirs /\ val = NoProjectCall

\* setup_lean_project(project_path, mathlib)
SetupProject(mathlib) ==
    LET r == setup_lean_project(arg, mathlib)
    IN  /\ arg' = r.dir
        /\ val' = [op |-> "setup", ok |-> r.ok, fresh |-> arg.kind = "absent"]
        /\ QuietPure

\* validate_lean_project(project_path)
ValidateProject ==
    /\ val' = [op |-> "validate", validation |-> validate_lean_project(arg),
               after |-> IF val.op = "setup" THEN val ELSE NoProjectCall]
    /\ UNCHANGED arg /\ QuietPure

\* a source file is written into the project
AddLeanFile ==
    /\ arg.kind = "dir" /\ arg.writable /\ arg.lean_files < MaxLeanFiles
    /\ arg' = [arg EXCEPT !.lean_files = @ + 1]
    /\ val' = NoProjectCall
    /\ QuietPure

NextProject ==
    \/ \E mathlib \in BOOLEAN : SetupProject(mathlib)
    \/ ValidateProject
    \/ AddLeanFile

SpecProject == InitProject /\ [][NextProject]_vars

\* C31: validate_lean_project right after a setup_lean_project that returned
\* True on a path where nothing was, with no source file added in between,
\* reports valid
C31_FreshSetupIsValid ==
    (val.op = "validate" /\ val.after.op = "setup" /\ val.after.ok /\ val.after.fresh)
        => val.validation.valid

---------------------------------------------------------------------------
(* SpecRace: store_cached_result, get_cached_result and                     *)
(* cleanup_expired_cache running concurrently on one cache directory, each  *)
(* interleaved system call by system call (open, read, write, unlink)       *)

\* the keys the threads work on
RaceKeys == {Key1, Key2}

\* cache.py:51, 100: cache_path / f"{cache_key}.json"
cache_fileOneName(key) == <<".json">>

cache_file(key) == key \o <<".json">>

\* what a thread runs: a worker stores its own value under its key and looks
\* the key up (test_concurrent_caching), a reader looks its key up, a sweeper
\* runs cleanup_expired_cache()
RaceProgs == {"worker", "lookup", "evict"}

\* the value a worker stores: {"thread": thread_id, ...}
ValueOf(p) == IF p = "s1" THEN result_dict(OutSuccess) ELSE result_dict(OutNonZero)

\* a thread: its program and key, where it is, the files a sweep listed and
\* has not visited, whether the file it holds open still has its name, what
\* its lookup returned and whether it unlinked a file
RaceState(prog, key, pc, todo, linked, hit, value, deleted) ==
    [prog |-> prog, key |-> key, pc |-> pc, todo |-> todo, linked |-> linked,
     hit |-> hit, value |-> value, deleted |-> deleted]

\* one attempt in the ledger next to the cache
OneAttempt ==
    log_attempt(EmptyLedger, "absent", [content |-> <<"a">>, file_name |-> <<"L">>],
                OutSuccess, uuid4(Handler, 0), 0)

InitRace ==
    /\ now = ScanTime
    /\ cacheDir = "ok"
    /\ cache \in [{cache_file(k) : k \in RaceKeys} -> ScanFiles]
    /\ ret = Ret("none", <<>>, FALSE, FALSE, NoResult)
    /\ stored = [k \in CacheKeys |-> NoStore]
    /\ ledgerDir = OneAttempt.dir /\ ledger = OneAttempt.ledger /\ nextId = <<>>
    /\ wpc = <<>> /\ wcur = <<>> /\ wdone = <<>> /\ log = <<>>
    /\ reqs = <<>> /\ maxConc = 0 /\ batch = "idle" /\ sem = 0
    /\ tpc = <<>> /\ tres = <<>> /\ compiles = <<>> /\ tloc = <<>> /\ tfail = <<>>
    /\ cpc = "idle" /\ ccall = NoCall /\ proc = "none"
    /\ workdir = [state |-> "ok", lean |-> "ok", files |-> {}]
    /\ inv = <<>> /\ arg = <<>> /\ val = <<>>
    /\ scan \in [Scanners ->
          {RaceState(prog, k,
                     IF prog = "worker" THEN "open" ELSE IF prog = "lookup" THEN "read" ELSE "list",
                     <<>>, FALSE, FALSE, NoResult, FALSE) :
              prog \in RaceProgs, k \in RaceKeys}]

QuietRace ==
    UNCHANGED <<now, cacheDir, ret, stored, ledgerVars, workerVars, log, batchVars,
                compVars, inv, pureVars>>

\* unlink of the file of key k: the name goes, and a thread that holds the
\* file open for writing keeps writing to a file without a name
Unlinked(sc, p, k) ==
    [q \in Scanners |->
        IF q # p /\ sc[q].pc = "write" /\ sc[q].key = k /\ cache[cache_file(k)].kind # "missing"
        THEN [sc[q] EXCEPT !.linked = FALSE]
        ELSE sc[q]]

\* cache.py:98-112: mkdir, the clock, open(cache_file, "w"): the file is
\* created or truncated
StoreOpen(p) ==
    /\ scan[p].pc = "open"
    /\ cache' = [cache EXCEPT ![cache_file(scan[p].key)] = Corrupt]
    /\ scan' = [scan EXCEPT ![p].pc = "write", ![p].linked = TRUE]
    /\ QuietRace

\* cache.py:113: json.dump and close write the record to the open file
StoreWrite(p) ==
    /\ scan[p].pc = "write"
    /\ cache' = IF scan[p].linked
                THEN [cache EXCEPT ![cache_file(scan[p].key)] =
                         store_cached_result(@, cacheDir, ValueOf(p), FALSE, 0, now, "none").file]
                ELSE cache
    /\ scan' = [scan EXCEPT ![p].pc = "read"]
    /\ QuietRace

\* cache.py:53-74: exists(), open and json.load, the expiry test; an entry that
\* is expired or does not parse is to be unlinked (lines 64, 78)
LookupRead(p) ==
    /\ scan[p].pc = "read"
    /\ LET f == cache[cache_file(scan[p].key)]
           g == get_cached_result(f, cacheDir, now)
       IN  scan' = [scan EXCEPT ![p] =
              IF f.kind = "missing" \/ g.hit
              THEN [@ EXCEPT !.pc = "done", !.hit = g.hit, !.value = g.value]
              ELSE [@ EXCEPT !.pc = "unlink"]]
    /\ UNCHANGED cache /\ QuietRace

\* cache.py:64, 78: cache_file.unlink(missing_ok=True); return None
LookupUnlink(p) ==
    /\ scan[p].pc = "unlink"
    /\ cache' = [cache EXCEPT ![cache_file(scan[p].key)] = Missing]
    /\ scan' = [Unlinked(scan, p, scan[p].key) EXCEPT
                   ![p].pc = "done",
                   ![p].deleted = cache[cache_file(scan[p].key)].kind # "missing"]
    /\ QuietRace

\* the keys whose files glob("*.json") finds
ListedKeys == {k \in RaceKeys : cache[cache_file(k)].kind # "missing"}

\* cache.py:160-163: the clock, glob("*.json")
EvictList(p, order) ==
    /\ scan[p].pc = "list"
    /\ scan' = [scan EXCEPT ![p].pc = IF order = <<>> THEN "done" ELSE "scan",
                            ![p].todo = order]
    /\ UNCHANGED cache /\ QuietRace

\* cache.py:165-168: open and json.load of the next file, the expiry test; a
\* file that is expired, gone or does not parse is to be unlinked
EvictRead(p) ==
    /\ scan[p].pc = "scan"
    /\ LET f == cache[cache_file(Head(scan[p].todo))]
           rest == Tail(scan[p].todo)
       IN  scan' = [scan EXCEPT ![p] =
              IF f.kind = "entry" /\ ~is_expired(f)
              THEN [@ EXCEPT !.todo = rest, !.pc = IF rest = <<>> THEN "done" ELSE "scan"]
              ELSE [@ EXCEPT !.pc = "evunlink"]]
    /\ UNCHANGED cache /\ QuietRace

\* cache.py:169, 174: cache_file.unlink()
EvictUnlink(p) ==
    /\ scan[p].pc = "evunlink"
    /\ LET k == Head(scan[p].todo)
       IN  /\ cache' = [cache EXCEPT ![cache_file(k)] = Missing]
           /\ scan' = [Unlinked(scan, p, k) EXCEPT
                          ![p].todo = Tail(@),
                          ![p].pc = IF Tail(scan[p].todo) = <<>> THEN "done" ELSE "scan",
                          ![p].deleted = @ \/ cache[cache_file(k)].kind # "missing"]
    /\ QuietRace

NextRace ==
    \/ \E p \in Scanners : StoreOpen(p)
    \/ \E p \in Scanners : StoreWrite(p)
    \/ \E p \in Scanners : LookupRead(p)
    \/ \E p \in Scanners : LookupUnlink(p)
    \/ \E p \in Scanners, order \in Orders(ListedKeys) : EvictList(p, order)
    \/ \E p \in Scanners : EvictRead(p)
    \/ \E p \in Scanners : EvictUnlink(p)

SpecRace == InitRace /\ [][NextRace]_vars

\* a step of store(k, r) or lookup(k) by thread p
KeyStep(p) == StoreOpen(p) \/ StoreWrite(p) \/ LookupRead(p) \/ LookupUnlink(p)

\* thread p stores and looks up a key no other thread stores or looks up
OwnKey(p) ==
    /\ scan[p].prog = "worker"
    /\ \A q \in Scanners \ {p} : scan[q].prog \in {"worker", "lookup"} /\ scan[q].key # scan[p].key

\* C34: cache operations are independent per key and confined to the cache:
\* a step of store(k, r) or lookup(k), the unlink of an expired or unreadable
\* entry included, leaves the entry of every other key as it is, and no cache
\* operation changes the ledger; so concurrent workers that store and then
\* look up disjoint keys each read back their own value.
C34_KeysAreIndependent ==
    /\ [][/\ \A p \in Scanners :
                KeyStep(p) => \A k \in RaceKeys \ {scan[p].key} :
                                 cache'[cache_file(k)] = cache[cache_file(k)]
          /\ ledger' = ledger /\ ledgerDir' = ledgerDir]_vars
    /\ [](\A p \in Scanners :
             (OwnKey(p) /\ scan[p].pc = "done")
                => (scan[p].hit /\ scan[p].value = MarkCached(ValueOf(p))))

\* C34 witness: two workers on different keys, one of which held an expired
\* entry, have both read back their own values
C34_Witness ==
    /\ OwnKey("s1") /\ OwnKey("s2")
    /\ scan["s1"].pc = "done" /\ scan["s2"].pc = "done"
    /\ scan["s1"].hit /\ scan["s2"].hit
    /\ scan["s1"].value # scan["s2"].value
    /\ cache[cache_file(scan["s1"].key)].result = ValueOf("s1")
    /\ cache[cache_file(scan["s2"].key)].result = ValueOf("s2")

\* the key whose file thread p is about to unlink
UnlinkKey(p) == IF scan[p].prog = "evict" THEN Head(scan[p].todo) ELSE scan[p].key

\* the entry is one a completed store left and is not expired
IsFresh(f) == f.kind = "entry" /\ ~is_expired(f)

\* C38: a completed store is not lost to expiry handling: a lookup(k) or
\* cleanup_expired_cache() that read an older, expired or unreadable entry of k
\* never deletes the fresh entry a concurrent store(k, r) has completed, and
\* when all operations have finished lookup(k) still returns r.
C38_CompletedStoreSurvives ==
    /\ [][\A p \in Scanners :
            (LookupUnlink(p) \/ EvictUnlink(p))
               => (IsFresh(cache[cache_file(UnlinkKey(p))])
                     => cache'[cache_file(UnlinkKey(p))] = cache[cache_file(UnlinkKey(p))])]_vars
    /\ [](\A p \in Scanners :
             (/\ \A q \in Scanners : scan[q].pc = "done"
              /\ scan[p].prog = "worker"
              /\ \A q \in Scanners \ {p} : ~(scan[q].prog = "worker" /\ scan[q].key = scan[p].key))
                => (/\ get_cached_result(cache[cache_file(scan[p].key)], cacheDir, now).hit
                    /\ get_cached_result(cache[cache_file(scan[p].key)], cacheDir, now).value
                          = MarkCached(ValueOf(p))))

---------------------------------------------------------------------------
(* SpecSource: the source unit compile_lean_content writes for a content    *)
(* and a list of dependencies                                               *)

\* a dependency list has at most MaxDeps entries
MaxDeps == 2

\* the texts are sequences of tokens: "import" is the word, Newline "\n"
Newline == "\n"
ImportPrefix == <<"import", " ">>

\* module names, import statements, and near misses: the bare word, the word
\* glued to a name, an import statement after a space, the empty text
Deps ==
    {<<"M">>, <<"N", ".", "x">>, <<"import", " ", "M">>, <<"import">>, <<"import", "M">>,
     <<" ", "import", " ", "M">>, <<>>, <<"import", " ">>}

SourceContents ==
    {<<>>, <<"x">>, <<"import", " ", "M", Newline, "x">>, <<Newline, "x", Newline>>}

DepLists == UNION {[1 .. n -> Deps] : n \in 0 .. MaxDeps}

SourceInputs ==
    [content : SourceContents,
     dependencies : {VNone} \cup {VList([i \in DOMAIN l |-> VStr(l[i])]) : l \in DepLists}]

\* dep.startswith("import ")
startswith_import(dep) ==
    Len(dep) >= Len(ImportPrefix) /\ SubSeq(dep, 1, Len(ImportPrefix)) = ImportPrefix

\* compiler.py:193-194
import_lineAlways(dep) == ImportPrefix \o dep

import_line(dep) == IF startswith_import(dep) THEN dep ELSE ImportPrefix \o dep

\* compiler.py:192-195: the loop over the dependencies, full_content so far
RECURSIVE import_loop(_, _)
import_loop(deps, full_content) ==
    IF deps = <<>> THEN full_content
    ELSE import_loop(Tail(deps), full_content \o import_line(Head(deps).v) \o <<Newline>>)

\* compiler.py:190-198: full_content
full_content(content, dependencies) ==
    (IF dependencies # VNone /\ dependencies # VList(<<>>)
     THEN import_loop(dependencies.v, <<>>) \o <<Newline>>
     ELSE <<>>) \o content

NoSource == [done |-> FALSE, text |-> <<>>]

InitSource == IdleProgram /\ arg \in SourceInputs /\ val = NoSource

\* compile_lean_content up to the text it writes at line 205
WriteSource ==
    /\ ~val.done
    /\ val' = [done |-> TRUE, text |-> full_content(arg.content, arg.dependencies)]
    /\ UNCHANGED arg /\ QuietPure

NextSource == WriteSource

SpecSource == InitSource /\ [][NextSource]_vars

\* the lines of a text: the pieces between its line feeds
RECURSIVE lines_of(_, _)
lines_of(text, line) ==
    IF text = <<>> THEN <<line>>
    ELSE IF Head(text) = Newline THEN <<line>> \o lines_of(Tail(text), <<>>)
    ELSE lines_of(Tail(text), Append(line, Head(text)))

\* the "import X" form of a dependency
Normalized(dep) == IF startswith_import(dep) THEN dep ELSE <<"import", " ">> \o dep

\* C35: the source unit is one line per dependency, each normalized to the
\* form "import X" (a dependency that starts with "import " is kept as it is,
\* so normalizing twice is normalizing once), in the given order, then a blank
\* line, then the content unchanged; with no dependencies, absent or an empty
\* list, the source unit is exactly the content.
C35_SourceUnitIsImportsThenContent ==
    val.done =>
        LET deps == IF arg.dependencies = VNone THEN <<>> ELSE arg.dependencies.v
            n == Len(deps)
            ls == lines_of(val.text, <<>>)
        IN  IF n = 0 THEN val.text = arg.content
            ELSE /\ Len(ls) = n + 1 + Len(lines_of(arg.content, <<>>))
                 /\ \A i \in 1 .. n :
                       /\ ls[i] = Normalized(deps[i].v)
                       /\ startswith_import(ls[i])
                       /\ Normalized(ls[i]) = ls[i]
                       /\ startswith_import(deps[i].v) => ls[i] = deps[i].v
                 /\ ls[n + 1] = <<>>
                 /\ SubSeq(val.text, Len(val.text) - Len(arg.content) + 1, Len(val.text))
                       = arg.content
                 /\ Len(val.text) = Len(arg.content) + 1
                       + Len(Concat([i \in 1 .. n |-> ls[i] \o <<Newline>>]))

\* C35 witness: a module name and an import statement, in that order, before
\* a content of several lines
C35_Witness ==
    /\ val.done
    /\ arg.dependencies = VList(<<VStr(<<"M">>), VStr(<<"import", " ", "M">>)>>)
    /\ arg.content = <<Newline, "x", Newline>>
    /\ val.text = <<"import", " ", "M", Newline, "import", " ", "M", Newline, Newline,
                    Newline, "x", Newline>>

---------------------------------------------------------------------------
(* SpecMidnight: the appends of SpecLedger on a clock that runs through the *)
(* end of a day                                                             *)

\* the clock runs from 0 to the first instant of the next day
MidnightTick ==
    /\ now < DayLen
    /\ now' = now + 1
    /\ UNCHANGED <<ledgerVars, workerVars>> /\ QuietCache

NextMidnight ==
    \/ MidnightTick
    \/ \E w \in Workers : AppendBegin(w)
    \/ \E w \in Workers : AppendStore(w)

SpecMidnight == InitLedger /\ [][NextMidnight]_vars

\* the date part of an ISO timestamp: what stands before the "T"
date_part(timestamp) == SubSeq(timestamp, 1, 1)

\* C36: every attempt record is stored in the partition named by the date of
\* its own creation: for each record <timestamp>_<attemptId> in partition D,
\* the date part of <timestamp>, which is also the record's timestamp field,
\* equals D, at whatever moment the append ran.
C36_PartitionIsDateOfTimestamp ==
    \A f \in ledger.files :
        /\ json_load(f.text).value.v.timestamp = PyStr(f.name.ts)
        /\ date_part(f.name.ts) = f.name.date

---------------------------------------------------------------------------
(* Claims about identical requests, checked under SpecBatch *)

\* the cache can take a record: its directory can be created and no record
\* path is taken by a directory
CacheUsable == cacheDir # "blocked" /\ \A k \in CacheKeys : cache[k] # DirRecord

\* C37: identical work is not repeated under concurrency: of two requests
\* with identical parameters in one batch, the compiler is invoked for at most
\* one, the other being served from the cache. (The cache can take the record
\* and the compiler returned an outcome to store.)
C37_IdenticalRequestsCompileOnce ==
    \A i \in Tasks, j \in Tasks :
        (/\ i # j /\ reqs[i].params = reqs[j].params
         /\ CacheUsable
         /\ tfail[i] # "compile" /\ tfail[j] # "compile")
            => compiles[i] + compiles[j] <= 1

---------------------------------------------------------------------------
(* Claims about the outcomes of the invoker, checked under SpecCompile *)

\* C39: every outcome compile_lean_file or compile_lean_content returns
\* satisfies: timeout implies return code -1 and an error being set; an error
\* being set implies return code -1; hence success holds if and only if the
\* return code is 0, and a success rate counted by return code agrees with
\* the success predicate.
C39_OutcomeInvariants ==
    (ret.op \in {"file", "content"} /\ ~ret.raised)
        => LET o == ret.out
           IN  /\ o.timeout => (o.returncode = -1 /\ error_set(o.error))
               /\ error_set(o.error) => o.returncode = -1
               /\ success(o) <=> o.returncode = 0

\* C39 witness: a compile_lean_content call came back timed out, with return
\* code -1 and its error set, and is not a success
C39_Witness ==
    /\ ret.op = "content" /\ ~ret.raised
    /\ ret.out.timeout /\ ret.out.returncode = -1 /\ error_set(ret.out.error)
    /\ ~success(ret.out)

---------------------------------------------------------------------------
(* Claims about the retention window, checked under SpecStore *)

\* C40: cleanup_old_attempts(days) never deletes an attempt that is younger
\* than the retention window: every attempt created at or after now - days
\* that get returned before the call is still returned by get after it.
C40_PurgeKeepsYoungAttempts ==
    [][ret'.op = "purge"
          => \A i \in DOMAIN log :
                (/\ ~log[i].raised
                 /\ retrieve_attempt(ledger, ledgerDir, log[i].id) # {}
                 /\ log[i].at >= now - ret'.days * DayLen)
                    => retrieve_attempt(ledger', ledgerDir', log[i].id)
                          = retrieve_attempt(ledger, ledgerDir, log[i].id)]_vars

---------------------------------------------------------------------------
(* Claims about the ledger on the request path, checked under SpecSingle *)

\* the attempts one request added to the ledger
NewAttempts(before, after) == after.files \ before.files

\* C32: a request appends one new attempt to the ledger exactly when it missed
\* the cache and asked for the attempt to be persisted (store_attempt): a cache
\* hit appends nothing, a request with store_attempt=false appends nothing, and
\* the response's cached flag is true exactly on a hit. (The compiler returned
\* an outcome and the ledger can be written: the other cases are C33's.)
C32_AppendExactlyOnAskedMiss ==
    [][\A p \in SingleParams, sa \in BOOLEAN, out \in CompilerOutcomes :
         CompileContent([params |-> p, store_attempt |-> sa], out, FALSE)
         => LET e == log'[Len(log')]
            IN  /\ e.resp.status = "ok" => (e.resp.cached <=> e.probe = "hit")
                /\ (e.probe = "hit" \/ ~sa) => NewAttempts(ledger, ledger') = {}
                /\ NewAttempts(ledger, ledger') # {} => (e.probe = "miss" /\ sa)
                /\ (e.probe = "miss" /\ sa /\ ledgerDir \in {"absent", "ok"})
                      => (/\ Cardinality(NewAttempts(ledger, ledger')) = 1
                          /\ ledger.files \subseteq ledger'.files
                          /\ e.appended # {})]_vars

\* C33: when the ledger append fails in a request whose compiler invocation
\* returned an outcome, the caller still receives that outcome (same return
\* code, timeout, error and success value), with no attempt id.
C33_LedgerFailureKeepsOutcome ==
    \A i \in Requests(log) :
        LET e == log[i]
        IN  (e.appendCalled /\ e.appendRaised)
               => (/\ e.resp.status = "ok"
                   /\ Payload(e.resp) = result_dict(e.out)
                   /\ e.resp.attempt_id = NoId)

---------------------------------------------------------------------------
(* Claims about the cache, checked under Spec *)

ApiKeys == {Key1, Key2}

\* C6: store(k, r, ttl) followed by lookup(k), with no store, eviction or clear
\* on k in between, returns r marked cached=true whenever ttl is omitted or the
\* lookup time is before store time + ttl. (The store is one that wrote its
\* record: a store whose write failed is the case of C9.)
C6_StoreThenLookup ==
    [][\A k \in ApiKeys :
         (/\ Lookup(k)
          /\ stored[k].valid
          /\ (~stored[k].has_ttl \/ now < stored[k].at + stored[k].ttl))
         => (/\ ~ret'.raised
             /\ ret'.hit
             /\ ret'.value = MarkCached(stored[k].result)
             /\ ret'.value.cached)]_vars

\* C6 witness: an entry stored with a ttl was looked up at a later time, still
\* before store time + ttl, and was returned
C6_Witness ==
    /\ ret.op = "lookup" /\ ret.key = Key1 /\ ret.hit
    /\ stored[Key1].valid /\ stored[Key1].has_ttl
    /\ stored[Key1].at < now /\ now < stored[Key1].at + stored[Key1].ttl

\* C7: a lookup at time t of an entry whose expiry e satisfies e <= t returns
\* absent and deletes the backing record, also on a writable cache directory;
\* in particular a store with ttl <= 0 followed by a lookup at the same clock
\* reading returns absent.
C7_ExpiredAtOrPastIsAbsent ==
    [][\A k \in ApiKeys :
         (/\ Lookup(k)
          /\ cacheDir = "ok"
          /\ cache[k].kind = "entry" /\ cache[k].has_expiry
          /\ cache[k].expires_at <= now)
         => (~ret'.raised /\ ~ret'.hit /\ cache'[k].kind = "missing")]_vars

\* C8: lookup(k) never raises, whatever the backing record of k is; a malformed
\* record (corrupt content, a directory of that name) gives absent and is removed.
C8_LookupNeverRaises ==
    [][\A k \in ApiKeys :
         Lookup(k)
         => (/\ ~ret'.raised
             /\ cache[k].kind \in {"corrupt", "dir"}
                => (~ret'.hit /\ cache'[k].kind = "missing"))]_vars

\* C9: store(k, r, ttl) never surfaces a failure to its caller, whatever step
\* fails, and a store that fails leaves the cache as it was.
C9_StoreNeverRaises ==
    [][\A k \in ApiKeys, r \in Results, has_ttl \in BOOLEAN, ttl \in TtlValues,
          fault \in {"none", "dump"} :
         Store(k, r, has_ttl, ttl, fault)
         => (/\ ~ret'.raised
             /\ ~stored'[k].valid => cache' = cache)]_vars

====
